---- MODULE Spec2Model ----
(***************************************************************************)
(* State-machine model of balatrobot's RPC client                          *)
(* (src/src/balatrobot/client.py, class BalatroClient) together with the   *)
(* TCP stream it talks over and the peer (the game API server) that        *)
(* answers its requests.                                                   *)
(*                                                                         *)
(* The client is single threaded.  send_message blocks in recv, so it is   *)
(* modelled as two steps (the write, then the blocking receive) with the   *)
(* position kept in pc; the peer and the network move in between.          *)
(***************************************************************************)
EXTENDS Integers, Sequences, FiniteSets, TLC

\* ------------------------------------------------------------------ bounds
\* send_message calls made on one client
MaxCalls == 3
\* sockets the process may hold open at once (socket.socket() fails beyond that)
MaxSockets == 2

\* ------------------------------------------------------------ error codes
\* enums.py ErrorCode: the closed taxonomy E001..E016
ErrorCode ==
  { "E001", "E002", "E003", "E004", "E005", "E006", "E007", "E008",
    "E009", "E010", "E011", "E012", "E013", "E014", "E015", "E016" }

\* What the "error_code" field of an error reply can hold on the wire: a code
\* of the taxonomy, a string outside it, or nothing (the key is missing).
ReplyCodes == ErrorCode \cup {"E999", "none"}

\* The human-readable "error" strings of error replies (two distinct texts, so
\* that a message not taken from the reply is told apart).
Texts == {"Invalid game state", "Deck not found"}

\* ------------------------------------------------------------ reply bodies
\* A reply body as the peer writes it.
\*   object  : a JSON object without an "error" key (a game state)
\*   error   : a JSON object with an "error" key; extra = it also holds
\*             state / game / hand / jokers fields
\*   badjson : text that is valid UTF-8 and is not JSON
\*   scalar  : a JSON value that is no container (number, true, null)
\*   nonutf8 : bytes that are not valid UTF-8
ObjectBody == [kind |-> "object", code |-> "none", text |-> "none", extra |-> TRUE]

ErrorBodies ==
  { [kind |-> "error", code |-> c, text |-> t, extra |-> e] :
      c \in ReplyCodes, t \in Texts, e \in BOOLEAN }

Malformed(k) == [kind |-> k, code |-> "none", text |-> "none", extra |-> FALSE]

MalformedBodies == { Malformed(k) : k \in {"badjson", "scalar", "nonutf8"} }

\* No reply was read.
NoBody == Malformed("none")

Bodies == {ObjectBody} \cup ErrorBodies \cup MalformedBodies

\* A TCP segment of a reply on its way to the client: the whole reply to
\* request r, or (for a large game state) its first or second half.  Nothing
\* reads a segment's bytes before recv() returns them, so the segment records
\* which request it answers and the bytes are drawn when they are read
\* (Readings below).
Frag(r, p) == [req |-> r, part |-> p]

\* ------------------------------------------------------------------- state
VARIABLES
  sock,       \* BalatroClient._socket: 0 = None, else the id of a socket
  connected,  \* BalatroClient._connected
  fds,        \* the process's socket table: id -> socket state
  pc,         \* "idle", or "recv" while send_message blocks in recv
  ncalls,     \* send_message calls made so far (the number of the current call)
  writes,     \* socket writes made by the current / last send_message call
  last,       \* outcome of the last client operation that finished
  \* --- the bot loop (src/src/balatrobot/base.py, class Bot)
  b_running,  \* Bot.running
  b_sock,     \* Bot.sock: 0 = None, else the number of the socket it holds
  b_pc,       \* where run() is: "run" (in its loop), "returned", "raised"
  b_polls,    \* run_step calls made so far
  b_step,     \* what the last run_step call did
  b_mem,      \* Bot.state and Bot.G
  \* --- the action serializer (base.py, Bot._action_to_action_str)
  w_st,       \* the action given, the string made of it, what was decoded
  \* --- the save-file helpers (client.py, save_checkpoint .. load_absolute_save)
  k_st,       \* the files on disk, the requests sent, the last outcome
  \* --- the path translation (client.py, _convert_windows_path_to_linux)
  p_st,       \* the platform, the path given and the path returned
  \* --- the replay test (tests/test_runs.py, test_replay_run)
  r_st,       \* the recording, the loop index, calls issued, replies, verdict
  \* --- the peer's phases as the API tests drive them
  g_st,       \* the phase of the game and the calls answered so far
  \* --- the request line of send_message, byte by byte (client.py 127-133)
  s_st,       \* the line's length, the bytes written, where the call is
  \* --- the replay scripts (bots/replay.py, bots/replay-tcp.py)
  t_st        \* the script, its recording, the steps sent, how it ended

\* The RPC client's variables, the bot's, and all of them.
cvars == <<sock, connected, fds, pc, ncalls, writes, last>>

bvars == <<b_running, b_sock, b_pc, b_polls, b_step, b_mem>>

\* The variables of the request line and of the replay scripts.
yvars == <<s_st, t_st>>

\* The variables of the serializer, the save-file helpers, the path
\* translation, the replay test and the peer's phases, and the two above.
xvars == <<w_st, k_st, p_st, r_st, g_st, yvars>>

vars == <<cvars, bvars, xvars>>

\* A free slot of the socket table: never used, or released by close(), which
\* also drops what was queued on the socket.
NoSocket ==
  [st |-> "unused", est |-> FALSE, peer |-> "up",
   toPeer |-> <<>>, wire |-> <<>>, rcvbuf |-> <<>>]

\* socket.socket(): a fresh, open, unconnected socket
FreshSocket == [NoSocket EXCEPT !.st = "open"]

\* The outcome of a client operation, as its caller sees it:
\*   op, res     which operation, and whether it returned or raised
\*   cls, code,  the exception's class, error_code and message text
\*   text
\*   call        for send_message: the number of the call
\*   cause       what the operation met: "data" (recv returned bytes), "eof",
\*               "timeout", "reset", "send_error", "not_connected", ...
\*   from, body  the request that the bytes read answer, and what they parse to
\*   ctx         the keys of the exception's context mapping
NoOutcome ==
  [op |-> "none", res |-> "none", cls |-> "none", code |-> "none",
   text |-> "none", call |-> 0, from |-> 0, cause |-> "none", body |-> NoBody,
   ctx |-> {}]

Returned(op) == [NoOutcome EXCEPT !.op = op, !.res = "return"]

\* A constructor that connects at once, as Bot.__init__ does.
ClientInit_EagerConnect ==
  /\ sock = 1
  /\ connected = TRUE
  /\ fds = [i \in 1..MaxSockets |->
              IF i = 1 THEN [NoSocket EXCEPT !.st = "open", !.est = TRUE]
                       ELSE NoSocket]
  /\ pc = "idle"
  /\ ncalls = 0
  /\ writes = 0
  /\ last = NoOutcome

\* BalatroClient.__init__
ClientInit ==
  /\ sock = 0
  /\ connected = FALSE
  /\ fds = [i \in 1..MaxSockets |-> NoSocket]
  /\ pc = "idle"
  /\ ncalls = 0
  /\ writes = 0
  /\ last = NoOutcome

\* ------------------------------------------------------------- exceptions
\* An exception raised to the caller: class, error_code, and what caused it.
Raise(op, cls, code, cause) ==
  [NoOutcome EXCEPT !.op = op, !.res = "raise", !.cls = cls, !.code = code,
                    !.cause = cause]

\* exceptions.create_exception_from_error_response: the typed exception for an
\* error reply, carrying the reply's error code and its error text.  A reply
\* whose code is missing or outside the taxonomy raises as well, with a class
\* this model does not name.
create_exception_from_error_response(body) ==
  IF body.code \in ErrorCode
    THEN [cls  |-> IF body.code = "E008" THEN "ConnectionFailedError" ELSE "BalatroError",
          code |-> body.code, text |-> body.text]
    ELSE [cls |-> "Unknown", code |-> "none", text |-> "none"]

\* connect() with the transport's own exception let through.
ConnectFailed_Raw(cause) == Raise("connect", "OSError", "none", cause)

\* The ConnectionFailedError of connect()'s except clause (client.py 80-86)
ConnectFailed(cause) ==
  [Raise("connect", "ConnectionFailedError", "E008", cause)
     EXCEPT !.ctx = {"host", "port", "error"}]

\* ------------------------------------------------------------- the socket
\* The smallest free slot of the socket table (0 if there is none).
FreeSlot ==
  IF \E i \in DOMAIN fds : fds[i].st = "unused"
    THEN CHOOSE i \in DOMAIN fds :
           /\ fds[i].st = "unused"
           /\ \A j \in DOMAIN fds : fds[j].st = "unused" => i <= j
    ELSE 0

\* ---------------------------------------------------------------- connect
\* connect() without the early return for a connected client.
Connect_AlwaysNew ==
  /\ pc = "idle"
  /\ \/ /\ last' = ConnectFailed("socket_create")
        /\ UNCHANGED <<sock, connected, fds>>
     \/ /\ FreeSlot # 0
        /\ sock' = FreeSlot
        /\ fds' = [fds EXCEPT ![FreeSlot] = FreshSocket]
        /\ last' = ConnectFailed("connect_refused")
        /\ UNCHANGED connected
     \/ /\ FreeSlot # 0
        /\ sock' = FreeSlot
        /\ fds' = [fds EXCEPT ![FreeSlot] = [FreshSocket EXCEPT !.est = TRUE]]
        /\ connected' = TRUE
        /\ last' = Returned("connect")
  /\ UNCHANGED <<pc, ncalls, writes>>
  /\ UNCHANGED <<bvars, xvars>>

\* BalatroClient.connect
Connect ==
  /\ pc = "idle"
  /\ IF connected
       THEN \* already connected: return at once
            /\ last' = Returned("connect")
            /\ UNCHANGED <<sock, connected, fds>>
       ELSE \/ \* socket.socket() raises OSError: _socket keeps its old value
               /\ last' = ConnectFailed("socket_create")
               /\ UNCHANGED <<sock, connected, fds>>
            \/ \* the socket is created and assigned, then connect() raises
               /\ FreeSlot # 0
               /\ sock' = FreeSlot
               /\ fds' = [fds EXCEPT ![FreeSlot] = FreshSocket]
               /\ last' = ConnectFailed("connect_refused")
               /\ UNCHANGED connected
            \/ \* the socket is created, assigned and connected
               /\ FreeSlot # 0
               /\ sock' = FreeSlot
               /\ fds' = [fds EXCEPT ![FreeSlot] = [FreshSocket EXCEPT !.est = TRUE]]
               /\ connected' = TRUE
               /\ last' = Returned("connect")
  /\ UNCHANGED <<pc, ncalls, writes>>
  /\ UNCHANGED <<bvars, xvars>>

\* disconnect() that closes the socket and keeps the reference to it.
Disconnect_KeepsSocket ==
  /\ pc = "idle"
  /\ IF sock # 0
       THEN fds' = [fds EXCEPT ![sock] = NoSocket]
       ELSE UNCHANGED fds
  /\ connected' = FALSE
  /\ last' = Returned("disconnect")
  /\ UNCHANGED <<sock, pc, ncalls, writes>>
  /\ UNCHANGED <<bvars, xvars>>

\* BalatroClient.disconnect
Disconnect ==
  /\ pc = "idle"
  /\ IF sock # 0
       THEN /\ fds' = [fds EXCEPT ![sock] = NoSocket]
            /\ sock' = 0
       ELSE UNCHANGED <<sock, fds>>
  /\ connected' = FALSE
  /\ last' = Returned("disconnect")
  /\ UNCHANGED <<pc, ncalls, writes>>
  /\ UNCHANGED <<bvars, xvars>>

\* ----------------------------------------------------------- send_message
\* What the bytes one recv() call returned can be, as the request they
\* answer and a reply body: one whole reply is any body; the two halves of one
\* reply are a game state; no bytes at all, one half alone, or several replies
\* run together are text that is not JSON, or bytes that are not UTF-8 when a
\* whole reply among them is not.
Readings(data) ==
  IF Len(data) = 1 /\ data[1].part = "whole"
    THEN { [req |-> data[1].req, body |-> b] : b \in Bodies }
  ELSE IF /\ Len(data) = 2
          /\ data[1].part = "head" /\ data[2].part = "tail"
          /\ data[1].req = data[2].req
    THEN { [req |-> data[1].req, body |-> ObjectBody] }
  ELSE { [req |-> IF data = <<>> THEN 0 ELSE data[1].req, body |-> Malformed(k)] :
           k \in {"badjson"} \cup
                 IF \E j \in DOMAIN data : data[j].part = "whole"
                   THEN {"nonutf8"} ELSE {} }

\* The outcome record of a send_message call that read the bytes p.
Received(call, p) ==
  [NoOutcome EXCEPT !.op = "send_message", !.call = call, !.from = p.req,
                    !.cause = "data", !.body = p.body]

\* ReplyOutcome with the JSON parse error handled like a socket error.
ReplyOutcome_JsonAsSocketError(call, p) ==
  LET o == Received(call, p)
  IN  IF p.body.kind = "nonutf8"
        THEN [o EXCEPT !.res = "raise", !.cls = "UnicodeDecodeError"]
      ELSE IF p.body.kind = "badjson"
        THEN [o EXCEPT !.res = "raise", !.cls = "ConnectionFailedError", !.code = "E008"]
      ELSE IF p.body.kind = "scalar"
        THEN [o EXCEPT !.res = "raise", !.cls = "TypeError"]
      ELSE IF p.body.kind = "error"
        THEN LET e == create_exception_from_error_response(p.body)
             IN  [o EXCEPT !.res = "raise", !.cls = e.cls, !.code = e.code,
                           !.text = e.text]
      ELSE [o EXCEPT !.res = "return"]

\* ReplyOutcome with the error check skipped for a reply that also holds the
\* fields of a game state.
ReplyOutcome_ErrorWithStateReturned(call, p) ==
  LET o == Received(call, p)
  IN  IF p.body.kind = "nonutf8"
        THEN [o EXCEPT !.res = "raise", !.cls = "UnicodeDecodeError"]
      ELSE IF p.body.kind = "badjson"
        THEN [o EXCEPT !.res = "raise", !.cls = "BalatroError", !.code = "E001"]
      ELSE IF p.body.kind = "scalar"
        THEN [o EXCEPT !.res = "raise", !.cls = "TypeError"]
      ELSE IF p.body.kind = "error" /\ ~p.body.extra
        THEN LET e == create_exception_from_error_response(p.body)
             IN  [o EXCEPT !.res = "raise", !.cls = e.cls, !.code = e.code,
                           !.text = e.text]
      ELSE [o EXCEPT !.res = "return"]

\* ReplyOutcome raising a plain BalatroError built from the error text alone,
\* without the reply's error code.
ReplyOutcome_ErrorCodeDropped(call, p) ==
  LET o == Received(call, p)
  IN  IF p.body.kind = "nonutf8"
        THEN [o EXCEPT !.res = "raise", !.cls = "UnicodeDecodeError"]
      ELSE IF p.body.kind = "badjson"
        THEN [o EXCEPT !.res = "raise", !.cls = "BalatroError", !.code = "E001"]
      ELSE IF p.body.kind = "scalar"
        THEN [o EXCEPT !.res = "raise", !.cls = "TypeError"]
      ELSE IF p.body.kind = "error"
        THEN [o EXCEPT !.res = "raise", !.cls = "BalatroError", !.code = "none",
                       !.text = p.body.text]
      ELSE [o EXCEPT !.res = "return"]

\* send_message, from the bytes received to the outcome (client.py 133-157):
\* decode, parse, look for the "error" key, raise or return.
ReplyOutcome(call, p) ==
  LET o == Received(call, p)
  IN  IF p.body.kind = "nonutf8"
        THEN \* data.decode() raises UnicodeDecodeError: no except clause
             [o EXCEPT !.res = "raise", !.cls = "UnicodeDecodeError"]
      ELSE IF p.body.kind = "badjson"
        THEN \* json.loads raises JSONDecodeError
             [o EXCEPT !.res = "raise", !.cls = "BalatroError", !.code = "E001"]
      ELSE IF p.body.kind = "scalar"
        THEN \* "error" in <number> raises TypeError: no except clause
             [o EXCEPT !.res = "raise", !.cls = "TypeError"]
      ELSE IF p.body.kind = "error"
        THEN LET e == create_exception_from_error_response(p.body)
             IN  [o EXCEPT !.res = "raise", !.cls = e.cls, !.code = e.code,
                           !.text = e.text]
      ELSE [o EXCEPT !.res = "return"]

\* SocketFailure letting the socket's own exception through.
SocketFailure_Raw(call, cause) ==
  [Raise("send_message", "OSError", "none", cause) EXCEPT !.call = call]

\* The ConnectionFailedError of send_message's guard (client.py 113-121)
NotConnected(call) ==
  [Raise("send_message", "ConnectionFailedError", "E008", "not_connected")
     EXCEPT !.call = call, !.ctx = {"connected", "socket"}]

\* The ConnectionFailedError of send_message's except clause for socket.error
\* (client.py 144-150)
SocketFailure(call, cause) ==
  [Raise("send_message", "ConnectionFailedError", "E008", cause)
     EXCEPT !.call = call, !.ctx = {"error"}]

\* SendMessage without the guard: the request is sent whatever the state.
SendMessage_NoGuard ==
  /\ pc = "idle"
  /\ ncalls < MaxCalls
  /\ ncalls' = ncalls + 1
  /\ IF sock = 0
       THEN \* None.send: AttributeError
            /\ last' = [Raise("send_message", "AttributeError", "none", "not_connected")
                          EXCEPT !.call = ncalls + 1]
            /\ writes' = 0
            /\ UNCHANGED <<pc, fds>>
       ELSE \/ /\ fds[sock].peer = "rst" \/ ~fds[sock].est
               /\ last' = SocketFailure(ncalls + 1, "send_error")
               /\ writes' = 0
               /\ UNCHANGED <<pc, fds>>
            \/ /\ fds[sock].peer # "rst" /\ fds[sock].est
               /\ writes' = 1
               /\ fds' = [fds EXCEPT ![sock].toPeer =
                            IF fds[sock].peer = "up"
                              THEN Append(@, ncalls + 1)
                              ELSE @]
               /\ pc' = "recv"
               /\ UNCHANGED last
  /\ UNCHANGED <<sock, connected>>
  /\ UNCHANGED <<bvars, xvars>>

\* BalatroClient.send_message, up to the blocking recv (client.py 110-130)
SendMessage ==
  /\ pc = "idle"
  /\ ncalls < MaxCalls
  /\ ncalls' = ncalls + 1
  /\ IF ~connected \/ sock = 0
       THEN \* the guard: not connected
            /\ last' = NotConnected(ncalls + 1)
            /\ writes' = 0
            /\ UNCHANGED <<pc, fds>>
       ELSE \/ \* send() raises socket.error (the connection was reset)
               /\ fds[sock].peer = "rst"
               /\ last' = SocketFailure(ncalls + 1, "send_error")
               /\ writes' = 0
               /\ UNCHANGED <<pc, fds>>
            \/ \* send() writes the request line
               /\ fds[sock].peer # "rst"
               /\ writes' = 1
               /\ fds' = [fds EXCEPT ![sock].toPeer =
                            IF fds[sock].peer = "up"
                              THEN Append(@, ncalls + 1)
                              ELSE @]
               /\ pc' = "recv"
               /\ UNCHANGED last
  /\ UNCHANGED <<sock, connected>>
  /\ UNCHANGED <<bvars, xvars>>

\* RecvReply that writes the request again when the receive times out, and
\* waits once more.
RecvReply_RetryOnTimeout ==
  /\ pc = "recv"
  /\ \/ /\ fds[sock].rcvbuf # <<>>
        /\ \E p \in Readings(fds[sock].rcvbuf) : last' = ReplyOutcome(ncalls, p)
        /\ fds' = [fds EXCEPT ![sock].rcvbuf = <<>>]
        /\ pc' = "idle"
        /\ UNCHANGED writes
     \/ /\ fds[sock].rcvbuf = <<>> /\ fds[sock].wire = <<>>
        /\ fds[sock].peer = "fin"
        /\ \E p \in Readings(<<>>) :
             last' = [ReplyOutcome(ncalls, p) EXCEPT !.cause = "eof"]
        /\ pc' = "idle"
        /\ UNCHANGED <<fds, writes>>
     \/ /\ fds[sock].peer = "rst"
        /\ last' = SocketFailure(ncalls, "reset")
        /\ pc' = "idle"
        /\ UNCHANGED <<fds, writes>>
     \/ /\ fds[sock].rcvbuf = <<>>
        /\ fds[sock].peer = "up" \/ fds[sock].wire # <<>>
        /\ IF writes < 2
             THEN /\ writes' = writes + 1
                  /\ fds' = [fds EXCEPT ![sock].toPeer =
                               IF fds[sock].peer = "up" THEN Append(@, ncalls) ELSE @]
                  /\ UNCHANGED <<pc, last>>
             ELSE /\ last' = SocketFailure(ncalls, "timeout")
                  /\ pc' = "idle"
                  /\ UNCHANGED <<fds, writes>>
  /\ UNCHANGED <<sock, connected, ncalls>>
  /\ UNCHANGED <<bvars, xvars>>

\* RecvReply that gives the connection up when the reply is not JSON.
RecvReply_ClosesOnParseError ==
  /\ pc = "recv"
  /\ pc' = "idle"
  /\ \/ /\ fds[sock].rcvbuf # <<>>
        /\ \E p \in Readings(fds[sock].rcvbuf) :
             /\ last' = ReplyOutcome(ncalls, p)
             /\ IF p.body.kind = "badjson"
                  THEN /\ fds' = [fds EXCEPT ![sock] = NoSocket]
                       /\ sock' = 0
                       /\ connected' = FALSE
                  ELSE /\ fds' = [fds EXCEPT ![sock].rcvbuf = <<>>]
                       /\ UNCHANGED <<sock, connected>>
     \/ /\ fds[sock].rcvbuf = <<>> /\ fds[sock].wire = <<>>
        /\ fds[sock].peer = "fin"
        /\ \E p \in Readings(<<>>) :
             last' = [ReplyOutcome(ncalls, p) EXCEPT !.cause = "eof"]
        /\ fds' = [fds EXCEPT ![sock] = NoSocket]
        /\ sock' = 0
        /\ connected' = FALSE
     \/ /\ fds[sock].peer = "rst"
        /\ last' = SocketFailure(ncalls, "reset")
        /\ UNCHANGED <<fds, sock, connected>>
     \/ /\ fds[sock].rcvbuf = <<>>
        /\ fds[sock].peer = "up" \/ fds[sock].wire # <<>>
        /\ last' = SocketFailure(ncalls, "timeout")
        /\ UNCHANGED <<fds, sock, connected>>
  /\ UNCHANGED <<ncalls, writes>>
  /\ UNCHANGED <<bvars, xvars>>

\* BalatroClient.send_message, the blocking recv and what follows
\* (client.py 133-157)
RecvReply ==
  /\ pc = "recv"
  /\ pc' = "idle"
  /\ \/ \* bytes have arrived: recv returns them all
        /\ fds[sock].rcvbuf # <<>>
        /\ \E p \in Readings(fds[sock].rcvbuf) : last' = ReplyOutcome(ncalls, p)
        /\ fds' = [fds EXCEPT ![sock].rcvbuf = <<>>]
     \/ \* the peer closed the connection: recv returns b""
        /\ fds[sock].rcvbuf = <<>> /\ fds[sock].wire = <<>>
        /\ fds[sock].peer = "fin"
        /\ \E p \in Readings(<<>>) :
             last' = [ReplyOutcome(ncalls, p) EXCEPT !.cause = "eof"]
        /\ UNCHANGED fds
     \/ \* the connection was reset: recv raises ConnectionResetError
        /\ fds[sock].peer = "rst"
        /\ last' = SocketFailure(ncalls, "reset")
        /\ UNCHANGED fds
     \/ \* nothing arrives within the timeout: recv raises socket.timeout
        /\ fds[sock].rcvbuf = <<>>
        /\ fds[sock].peer = "up" \/ fds[sock].wire # <<>>
        /\ last' = SocketFailure(ncalls, "timeout")
        /\ UNCHANGED fds
  /\ UNCHANGED <<sock, connected, ncalls, writes>>
  /\ UNCHANGED <<bvars, xvars>>

\* ------------------------------------------------- the peer and the network
\* The replies the peer may write for request r: one segment, or two for a
\* large game state.
Replies(r) ==
  { <<Frag(r, "whole")>>, <<Frag(r, "head"), Frag(r, "tail")>> }

\* The peer reads the next request line and writes its one reply.
PeerReply(i) ==
  /\ fds[i].st = "open" /\ fds[i].est /\ fds[i].peer = "up"
  /\ fds[i].toPeer # <<>>
  /\ \E rep \in Replies(Head(fds[i].toPeer)) :
       fds' = [fds EXCEPT ![i].toPeer = Tail(@), ![i].wire = @ \o rep]
  /\ UNCHANGED <<sock, connected, pc, ncalls, writes, last>>
  /\ UNCHANGED <<bvars, xvars>>

\* The network delivers the next segment into the socket's receive buffer.
Deliver(i) ==
  /\ fds[i].st = "open" /\ fds[i].wire # <<>>
  /\ fds' = [fds EXCEPT ![i].wire = Tail(@),
                        ![i].rcvbuf = Append(@, Head(fds[i].wire))]
  /\ UNCHANGED <<sock, connected, pc, ncalls, writes, last>>
  /\ UNCHANGED <<bvars, xvars>>

\* The peer closes its end in an orderly way; it reads no more requests.
PeerClose(i) ==
  /\ fds[i].st = "open" /\ fds[i].est /\ fds[i].peer = "up"
  /\ fds' = [fds EXCEPT ![i].peer = "fin", ![i].toPeer = <<>>]
  /\ UNCHANGED <<sock, connected, pc, ncalls, writes, last>>
  /\ UNCHANGED <<bvars, xvars>>

\* The connection is reset; what was queued in either direction is lost.
PeerReset(i) ==
  /\ fds[i].st = "open" /\ fds[i].est /\ fds[i].peer # "rst"
  /\ fds' = [fds EXCEPT ![i].peer = "rst", ![i].toPeer = <<>>,
                        ![i].wire = <<>>, ![i].rcvbuf = <<>>]
  /\ UNCHANGED <<sock, connected, pc, ncalls, writes, last>>
  /\ UNCHANGED <<bvars, xvars>>

\* A socket object the client no longer references is closed when it is
\* collected.
Collect(i) ==
  /\ fds[i].st = "open" /\ i # sock
  /\ fds' = [fds EXCEPT ![i] = NoSocket]
  /\ UNCHANGED <<sock, connected, pc, ncalls, writes, last>>
  /\ UNCHANGED <<bvars, xvars>>

\* ================================================================ the bot
\* Bot (base.py) talks to the game over a connected datagram socket: each
\* run_step sends the probe "HELLO", receives one decision request, and
\* answers it with the action its strategy chooses.

\* run_step calls made in one run
MaxPolls == 3

\* enums.State.GAME_OVER
GAME_OVER == 4

\* enums.py State: the closed enumeration of phase codes.
StateCodes == 1..19

\* The values of "state" in the decision requests drawn here: SELECTING_HAND,
\* GAME_OVER, and a code outside the enumeration.
EnvStates == {1, GAME_OVER, 20}

\* The nine strategy callbacks (the abstract methods of Bot)
Callbacks ==
  { "skip_or_select_blind", "select_cards_from_hand", "select_shop_action",
    "select_booster_action", "sell_jokers", "rearrange_jokers",
    "use_or_sell_consumables", "rearrange_consumables", "rearrange_hand" }

\* What "waitingFor" can hold: the ten names the bot knows and one it does not.
WaitingFor == Callbacks \cup {"start_run", "open_pack"}

\* A decision request, as json.loads returns it.  resp = it has a "response"
\* key.
DecisionRequests ==
  [state : EnvStates, waitingFor : WaitingFor, waitingForAction : BOOLEAN,
   resp : BOOLEAN]

NoRequest ==
  [state |-> 0, waitingFor |-> "none", waitingForAction |-> FALSE, resp |-> FALSE]

\* An ActionSchema value, or what stands where one should be:
\*   kind  "action", "empty" (an empty dict), "None", or "none" (nothing there)
\*   by    the callback that returned it ("bot" for the built-in START_RUN)
NoAction == [kind |-> "none", verb |-> "none", args |-> <<>>, by |-> "none"]

Action(verb, args, by) == [kind |-> "action", verb |-> verb, args |-> args, by |-> by]

\* The bot's constructor arguments stake, deck, seed, challenge
\* (Stakes.WHITE, Decks.RED, a fixed seed, no challenge)
StartRunArgs == <<"1", "Red Deck", "EXAMPLE", "None">>

\* What a strategy callback can do: return an action, an empty dict or None,
\* set self.running to False or leave it, and keep what it saw in the bot's
\* public attributes (a note in self.state, the request in self.G) or not.
CallbackResults(name) ==
  [ret  : { Action("PLAY_HAND", <<"1", "2">>, name),
            Action("PASS", <<>>, name),
            [NoAction EXCEPT !.kind = "empty", !.by = name],
            [NoAction EXCEPT !.kind = "None", !.by = name] },
   stop : BOOLEAN,
   keep : BOOLEAN]

\* Bot.state and Bot.G as __init__ and _initialize_socket set them: an empty
\* mapping (its set of keys) and None.
NoMem == [state |-> {}, G |-> "None"]

\* Bot.state and Bot.G after a strategy callback that keeps what it saw.
Kept == [state |-> {"note"}, G |-> "request"]

\* Python's ==  between the int of env["state"] and a member of State, a plain
\* Enum: an Enum member equals no int.
IntEqualsEnumMember(n, member) == FALSE

\* What one run_step call did:
\*   probes   "HELLO" datagrams sent
\*   got      what recv gave: "none", "error" (socket.error), "badjson", "request"
\*   env      the decision request
\*   invoked  the strategy callbacks called, in order
\*   chosen   what chooseaction returned
\*   sent     the action datagrams sent, in order
\*   res, err "return", or "raise" and the exception's class
\*   reconn   _initialize_socket was called
\*   stopped  chooseaction left self.running False
NoStep ==
  [probes |-> 0, got |-> "none", env |-> NoRequest, invoked |-> <<>>,
   chosen |-> NoAction, sent |-> <<>>, res |-> "none", err |-> "none",
   reconn |-> FALSE, stopped |-> FALSE]

\* Bot.__init__, which ends in _initialize_socket, followed by the call of run()
BotInit ==
  /\ b_running = TRUE
  /\ b_sock = 1
  /\ b_pc = "run"
  /\ b_polls = 0
  /\ b_step = NoStep
  /\ b_mem = NoMem

\* chooseaction with a default branch that passes instead of raising.
chooseaction_DefaultPass(env, running, cb) ==
  LET afterState == IF IntEqualsEnumMember(env.state, GAME_OVER)
                      THEN FALSE ELSE running
  IN  IF env.waitingFor = "start_run"
        THEN [running |-> afterState, invoked |-> <<>>, kept |-> FALSE,
              ret |-> Action("START_RUN", StartRunArgs, "bot"), err |-> "none"]
      ELSE IF env.waitingFor \in Callbacks
        THEN [running |-> IF cb.stop THEN FALSE ELSE afterState,
              invoked |-> <<env.waitingFor>>, kept |-> cb.keep,
              ret |-> cb.ret, err |-> "none"]
      ELSE [running |-> afterState, invoked |-> <<>>, kept |-> FALSE,
            ret |-> Action("PASS", <<>>, "bot"), err |-> "none"]

\* Bot.chooseaction: the running flag it leaves, the callbacks it called, and
\* the action it returns or the exception it raises.  cb is what the strategy
\* callback does if it is called.
chooseaction(env, running, cb) ==
  LET afterState == IF IntEqualsEnumMember(env.state, GAME_OVER)
                      THEN FALSE ELSE running
  IN  IF env.waitingFor = "start_run"
        THEN [running |-> afterState, invoked |-> <<>>, kept |-> FALSE,
              ret |-> Action("START_RUN", StartRunArgs, "bot"), err |-> "none"]
      ELSE IF env.waitingFor \in Callbacks
        THEN [running |-> IF cb.stop THEN FALSE ELSE afterState,
              invoked |-> <<env.waitingFor>>, kept |-> cb.keep,
              ret |-> cb.ret, err |-> "none"]
      ELSE [running |-> afterState, invoked |-> <<>>, kept |-> FALSE,
            ret |-> NoAction, err |-> "ValueError"]

\* Bot._initialize_socket: state and G are reset, running is set to True, and
\* a new socket is made.
InitializeSocket ==
  /\ b_mem' = NoMem
  /\ b_running' = TRUE
  /\ b_sock' = b_sock + 1

\* run_step: sending the probe raises socket.error, outside the try block.
ProbeFails ==
  /\ b_step' = [NoStep EXCEPT !.res = "raise", !.err = "socket.error"]
  /\ b_pc' = "raised"
  /\ UNCHANGED <<b_running, b_sock, b_mem>>

\* run_step without the except clause: the socket error of recv propagates.
RecvFails_Propagates ==
  /\ b_step' = [NoStep EXCEPT !.probes = 1, !.got = "error", !.res = "raise",
                              !.err = "socket.error"]
  /\ b_pc' = "raised"
  /\ UNCHANGED <<b_running, b_sock, b_mem>>

\* run_step: recv raises socket.error (a timeout, or the port is closed); the
\* except clause reconnects.
RecvFails ==
  /\ b_step' = [NoStep EXCEPT !.probes = 1, !.got = "error", !.res = "return",
                              !.reconn = TRUE]
  /\ InitializeSocket
  /\ UNCHANGED b_pc

\* run_step whose except clause catches the JSON error too, and reconnects.
RecvBadJson_Reconnects ==
  /\ b_step' = [NoStep EXCEPT !.probes = 1, !.got = "badjson", !.res = "return",
                              !.reconn = TRUE]
  /\ InitializeSocket
  /\ UNCHANGED b_pc

\* run_step: the datagram is not JSON; json.loads raises.
RecvBadJson ==
  /\ b_step' = [NoStep EXCEPT !.probes = 1, !.got = "badjson", !.res = "raise",
                              !.err = "JSONDecodeError"]
  /\ b_pc' = "raised"
  /\ UNCHANGED <<b_running, b_sock, b_mem>>

\* RecvNoDecision that answers with a PASS although nothing was asked.
RecvNoDecision_Answers(env) ==
  /\ env.resp \/ ~env.waitingForAction
  /\ b_step' = [NoStep EXCEPT !.probes = 1, !.got = "request", !.env = env,
                              !.sent = <<Action("PASS", <<>>, "bot")>>,
                              !.res = "return"]
  /\ UNCHANGED <<b_running, b_sock, b_pc, b_mem>>

\* run_step: a decision request arrives that asks for nothing (it carries a
\* "response", or waitingForAction is false).
RecvNoDecision(env) ==
  /\ env.resp \/ ~env.waitingForAction
  /\ b_step' = [NoStep EXCEPT !.probes = 1, !.got = "request", !.env = env,
                              !.res = "return"]
  /\ UNCHANGED <<b_running, b_sock, b_pc, b_mem>>

\* run_step that takes a missing action for "do nothing".
RecvDecision_EmptyIgnored(env, cb) ==
  /\ ~env.resp /\ env.waitingForAction
  /\ LET c    == chooseaction(env, b_running, cb)
         mem  == IF c.kept THEN Kept ELSE b_mem
         step == [NoStep EXCEPT !.probes = 1, !.got = "request", !.env = env,
                                !.invoked = c.invoked, !.chosen = c.ret,
                                !.stopped = ~c.running]
     IN  IF c.err # "none"
           THEN /\ b_step' = [step EXCEPT !.res = "raise", !.err = c.err]
                /\ b_pc' = "raised"
                /\ b_running' = c.running
                /\ b_mem' = mem
                /\ UNCHANGED b_sock
         ELSE IF c.ret.kind # "action"
           THEN /\ b_step' = [step EXCEPT !.res = "return"]
                /\ b_running' = c.running
                /\ b_mem' = mem
                /\ UNCHANGED <<b_sock, b_pc>>
         ELSE \/ /\ b_step' = [step EXCEPT !.sent = <<c.ret>>, !.res = "return"]
                 /\ b_running' = c.running
                 /\ b_mem' = mem
                 /\ UNCHANGED <<b_sock, b_pc>>
              \/ /\ b_step' = [step EXCEPT !.res = "return", !.reconn = TRUE]
                 /\ InitializeSocket
                 /\ UNCHANGED b_pc

\* run_step: a decision request arrives that asks for an action.
RecvDecision(env, cb) ==
  /\ ~env.resp /\ env.waitingForAction
  /\ LET c    == chooseaction(env, b_running, cb)
         mem  == IF c.kept THEN Kept ELSE b_mem
         step == [NoStep EXCEPT !.probes = 1, !.got = "request", !.env = env,
                                !.invoked = c.invoked, !.chosen = c.ret,
                                !.stopped = ~c.running]
     IN  IF c.err # "none"
           THEN \* chooseaction raised
                /\ b_step' = [step EXCEPT !.res = "raise", !.err = c.err]
                /\ b_pc' = "raised"
                /\ b_running' = c.running
                /\ b_mem' = mem
                /\ UNCHANGED b_sock
         ELSE IF c.ret.kind # "action"
           THEN \* "All actions must return a value!"
                /\ b_step' = [step EXCEPT !.res = "raise", !.err = "ValueError"]
                /\ b_pc' = "raised"
                /\ b_running' = c.running
                /\ b_mem' = mem
                /\ UNCHANGED b_sock
         ELSE \/ \* the action is sent
                 /\ b_step' = [step EXCEPT !.sent = <<c.ret>>, !.res = "return"]
                 /\ b_running' = c.running
                 /\ b_mem' = mem
                 /\ UNCHANGED <<b_sock, b_pc>>
              \/ \* sending the action raises socket.error: reconnect
                 /\ b_step' = [step EXCEPT !.res = "return", !.reconn = TRUE]
                 /\ InitializeSocket
                 /\ UNCHANGED b_pc

\* One iteration of run(): the loop test passed, run_step is called.
RunStep ==
  /\ b_pc = "run" /\ b_running /\ b_sock # 0
  /\ b_polls < MaxPolls
  /\ b_polls' = b_polls + 1
  /\ \/ ProbeFails
     \/ RecvFails
     \/ RecvBadJson
     \/ \E env \in DecisionRequests : RecvNoDecision(env)
     \/ \E env \in DecisionRequests :
          \E cb \in CallbackResults(env.waitingFor) : RecvDecision(env, cb)
  /\ UNCHANGED <<cvars, xvars>>

\* run_step called while running is False or sock is None (by the program that
\* holds the bot, not by run(), whose loop test excludes it): it returns at
\* once.
RunStepIdle ==
  /\ b_pc # "raised" /\ (~b_running \/ b_sock = 0)
  /\ b_polls < MaxPolls
  /\ b_polls' = b_polls + 1
  /\ b_step' = [NoStep EXCEPT !.res = "return"]
  /\ UNCHANGED <<b_running, b_sock, b_pc, b_mem>>
  /\ UNCHANGED <<cvars, xvars>>

\* run(): the loop test fails and run() returns.
RunReturn ==
  /\ b_pc = "run" /\ ~b_running
  /\ b_pc' = "returned"
  /\ UNCHANGED <<b_running, b_sock, b_polls, b_step, b_mem>>
  /\ UNCHANGED <<cvars, xvars>>

\* =============================================== the action serializer
\* (src/src/balatrobot/base.py, Bot._action_to_action_str)
\* Strings are sequences of characters; a verb's name counts as one character.

\* elements an args list may hold
MaxArgs == 2
\* elements a list inside an args list may hold
MaxListLen == 2

\* enums.py Actions: two of the verbs.
Verbs == {"PLAY_HAND", "DISCARD_HAND"}

\* Scalar arguments, as the character str() gives for them; the integers
\* among them are what a card list holds.
Scalars == {"1", "2", "x"}

Ints == {"1", "2"}

SeqUpTo(S, n) == UNION { [1..m -> S] : m \in 0..n }

\* One element of args: a scalar, or a list of integers (example.py, plays).
Args ==
  [k : {"scalar"}, e : [1..1 -> Scalars]]
    \cup [k : {"list"}, e : SeqUpTo(Ints, MaxListLen)]

\* models.py ActionSchema, with args a list.
ActionSchemas == [verb : Verbs, args : SeqUpTo(Args, MaxArgs)]

\* sep.join(parts), for a sequence of strings
RECURSIVE Join(_, _)
Join(parts, sep) ==
  IF parts = <<>> THEN <<>>
  ELSE IF Len(parts) = 1 THEN parts[1]
  ELSE parts[1] \o sep \o Join(Tail(parts), sep)

\* str(arg): a scalar prints as itself, a list as Python prints a list.
Str(arg) ==
  IF arg.k = "scalar"
    THEN arg.e
    ELSE <<"[">> \o Join([i \in DOMAIN arg.e |-> <<arg.e[i]>>], <<",", " ">>)
                 \o <<"]">>

\* Bot._action_to_action_str
action_to_action_str(action) ==
  LET name   == <<action.verb>>
      result == IF action.args # <<>>
                  THEN << name,
                          Join([i \in DOMAIN action.args |-> Str(action.args[i])],
                               <<",">>) >>
                  ELSE << name >>
  IN  Join(result, <<"|">>)

\* s.split(c)
RECURSIVE Split(_, _)
Split(s, c) ==
  IF \A i \in DOMAIN s : s[i] # c
    THEN << s >>
    ELSE LET n == CHOOSE i \in DOMAIN s :
                    s[i] = c /\ \A j \in 1..(i - 1) : s[j] # c
         IN  << SubSeq(s, 1, n - 1) >> \o Split(SubSeq(s, n + 1, Len(s)), c)

HasComma(s) == \E i \in DOMAIN s : s[i] = ","

\* The decoding the wire format describes: fields split on "|", the first the
\* verb, every other one an argument, a list when it holds a ",".
DecodeFields(wire) ==
  LET f == Split(wire, "|")
  IN  [verb |-> f[1],
       args |-> [i \in 1..(Len(f) - 1) |->
                   IF HasComma(f[i + 1])
                     THEN [k |-> "list",   e |-> Split(f[i + 1], ",")]
                     ELSE [k |-> "scalar", e |-> << f[i + 1] >>]]]

\* The decoding that fits what the serializer writes: the second field holds
\* all the arguments, split on ",".
DecodeFlat(wire) ==
  LET f == Split(wire, "|")
      a == IF Len(f) < 2 THEN <<>> ELSE Split(f[2], ",")
  IN  [verb |-> f[1],
       args |-> [i \in DOMAIN a |-> [k |-> "scalar", e |-> << a[i] >>]]]

\* An args list as a decoder gives it back: every element printed.
Printed(args) ==
  [i \in DOMAIN args |->
     [k |-> args[i].k, e |-> [j \in DOMAIN args[i].e |-> << args[i].e[j] >>]]]

NoDecoded == [verb |-> <<>>, args |-> <<>>]

WireIdle ==
  [pc |-> "idle", action |-> [verb |-> "PLAY_HAND", args |-> <<>>],
   wire |-> <<>>, fields |-> NoDecoded, flat |-> NoDecoded]

\* Any action a strategy callback may return is given to the serializer.
WireInit ==
  w_st \in { [WireIdle EXCEPT !.pc = "given", !.action = a] : a \in ActionSchemas }

\* run_step serializes the action (base.py 303).
Serialize ==
  /\ w_st.pc = "given"
  /\ w_st' = [w_st EXCEPT !.pc = "sent",
                          !.wire = action_to_action_str(w_st.action)]
  /\ UNCHANGED <<cvars, bvars, yvars, k_st, p_st, r_st, g_st>>

\* The receiver decodes the string.
Decode ==
  /\ w_st.pc = "sent"
  /\ w_st' = [w_st EXCEPT !.pc = "decoded",
                          !.fields = DecodeFields(w_st.wire),
                          !.flat = DecodeFlat(w_st.wire)]
  /\ UNCHANGED <<cvars, bvars, yvars, k_st, p_st, r_st, g_st>>

\* ============================================== the save-file helpers
\* (src/src/balatrobot/client.py, get_save_info .. load_absolute_save)
\* The request to the peer is reduced to its outcome: get_save_info returns
\* what the peer reports, or send_message raises, with or without a request
\* having been written.

\* helper calls made on one client
MaxOps == 2

\* The live save file, a file to load, and a file that is not there.
LiveSave == "save.jkr"

Sources == {"src.jkr", "gone.jkr"}

\* Destinations given to save_checkpoint: with the extension, in either case,
\* in a directory that does not exist yet, without it, with another one, and
\* under the home of a user that expanduser cannot resolve.
Dests == {"ck.jkr", "ck.JKR", "new/ck.jkr", "new/ck", "ck.txt", "~nobody/ck"}

\* Path(dest).expanduser() raises RuntimeError for these.
Unresolvable == {"~nobody/ck"}

\* dest.suffix.lower()
SuffixLower(dest) ==
  IF dest \in {"ck.jkr", "ck.JKR", "new/ck.jkr"} THEN ".jkr"
  ELSE IF dest = "ck.txt" THEN ".txt"
  ELSE ""

\* The directories dest.parent.mkdir(parents=True, exist_ok=True) creates.
ParentDirs(dest) ==
  IF dest \in {"new/ck.jkr", "new/ck"} THEN {"new"} ELSE {}

\* prepare_save's destination inside the save directory the peer reports.
CheckpointsDir == "savedir/checkpoint"

PreparedSave == "savedir/checkpoint/save.jkr"

\* How the request of get_save_info ends.
RpcOutcomes == {"ok", "failed", "not_connected"}

\* What the peer reports: save_exists, and whether save_file_path and
\* save_directory are given.
SaveInfos == [save_exists : BOOLEAN, has_path : BOOLEAN, has_dir : BOOLEAN]

NoInfo == [save_exists |-> FALSE, has_path |-> FALSE, has_dir |-> FALSE]

\* The outcome of a helper call: what it was given, how it ended, the
\* requests it sent and the filesystem calls it made.
NoCkptOutcome ==
  [op |-> "none", arg |-> "none", rpc |-> "none", info |-> NoInfo,
   live |-> FALSE, res |-> "none", cls |-> "none", code |-> "none",
   sent |-> 0, fsops |-> <<>>]

CkptStates ==
  { [files |-> f, dirs |-> {}, rpcs |-> 0, ops |-> 0, saved |-> {},
     last |-> NoCkptOutcome] : f \in SUBSET {LiveSave, "src.jkr"} }

\* A client, with or without a live save file and a file to load on disk.
CkptInit == k_st \in CkptStates

\* The state after a helper call that ended as `out`, with the files and
\* directories it leaves.
AfterOp(k, out, files, dirs) ==
  [k EXCEPT !.ops = @ + 1, !.rpcs = @ + out.sent,
            !.files = files, !.dirs = dirs, !.last = out]

Sent(rpc) == IF rpc = "not_connected" THEN 0 ELSE 1

\* save_checkpoint without the check of save_exists.
save_checkpoint_NoSaveCheck(k, dest, rpc, info, mkOk, cpOk, partial) ==
  LET call == [NoCkptOutcome EXCEPT !.op = "save_checkpoint", !.arg = dest,
                 !.rpc = rpc, !.info = info, !.live = LiveSave \in k.files,
                 !.sent = Sent(rpc)]
      raise(cls, code, fsops, files, dirs) ==
        AfterOp(k, [call EXCEPT !.res = "raise", !.cls = cls, !.code = code,
                                !.fsops = fsops], files, dirs)
  IN  IF rpc # "ok"
        THEN raise("SendMessageError", "any", <<>>, k.files, k.dirs)
      ELSE IF ~info.has_path
        THEN raise("KeyError", "none", <<>>, k.files, k.dirs)
      ELSE IF LiveSave \notin k.files
        THEN raise("BalatroError", "E012", <<>>, k.files, k.dirs)
      ELSE IF dest \in Unresolvable
        THEN raise("RuntimeError", "none", <<>>, k.files, k.dirs)
      ELSE IF SuffixLower(dest) # ".jkr"
        THEN raise("BalatroError", "E010", <<>>, k.files, k.dirs)
      ELSE IF ~mkOk
        THEN raise("BalatroError", "E010", <<"mkdir">>, k.files, k.dirs)
      ELSE IF ~cpOk
        THEN raise("BalatroError", "E010", <<"mkdir", "copy2">>,
                   IF partial THEN k.files \cup {dest} ELSE k.files,
                   k.dirs \cup ParentDirs(dest))
      ELSE [ AfterOp(k, [call EXCEPT !.res = "return",
                                     !.fsops = <<"mkdir", "copy2">>],
                     k.files \cup {dest}, k.dirs \cup ParentDirs(dest))
             EXCEPT !.saved = @ \cup {dest} ]

\* save_checkpoint that makes the destination directory before it looks at
\* the extension.
save_checkpoint_MkdirFirst(k, dest, rpc, info, mkOk, cpOk, partial) ==
  LET call == [NoCkptOutcome EXCEPT !.op = "save_checkpoint", !.arg = dest,
                 !.rpc = rpc, !.info = info, !.live = LiveSave \in k.files,
                 !.sent = Sent(rpc)]
      raise(cls, code, fsops, files, dirs) ==
        AfterOp(k, [call EXCEPT !.res = "raise", !.cls = cls, !.code = code,
                                !.fsops = fsops], files, dirs)
  IN  IF rpc # "ok"
        THEN raise("SendMessageError", "any", <<>>, k.files, k.dirs)
      ELSE IF ~info.save_exists
        THEN raise("BalatroError", "E009", <<>>, k.files, k.dirs)
      ELSE IF ~info.has_path
        THEN raise("KeyError", "none", <<>>, k.files, k.dirs)
      ELSE IF LiveSave \notin k.files
        THEN raise("BalatroError", "E012", <<>>, k.files, k.dirs)
      ELSE IF dest \in Unresolvable
        THEN raise("RuntimeError", "none", <<>>, k.files, k.dirs)
      ELSE IF ~mkOk
        THEN raise("BalatroError", "E010", <<"mkdir">>, k.files, k.dirs)
      ELSE IF SuffixLower(dest) # ".jkr"
        THEN raise("BalatroError", "E010", <<"mkdir">>, k.files,
                   k.dirs \cup ParentDirs(dest))
      ELSE IF ~cpOk
        THEN raise("BalatroError", "E010", <<"mkdir", "copy2">>,
                   IF partial THEN k.files \cup {dest} ELSE k.files,
                   k.dirs \cup ParentDirs(dest))
      ELSE [ AfterOp(k, [call EXCEPT !.res = "return",
                                     !.fsops = <<"mkdir", "copy2">>],
                     k.files \cup {dest}, k.dirs \cup ParentDirs(dest))
             EXCEPT !.saved = @ \cup {dest} ]

\* BalatroClient.save_checkpoint(dest): the state it leaves, given how the
\* request ends (rpc), what the peer reports (info), whether mkdir and copy2
\* succeed, and whether a failed copy2 leaves a partial file.
save_checkpoint(k, dest, rpc, info, mkOk, cpOk, partial) ==
  LET call == [NoCkptOutcome EXCEPT !.op = "save_checkpoint", !.arg = dest,
                 !.rpc = rpc, !.info = info, !.live = LiveSave \in k.files,
                 !.sent = Sent(rpc)]
      raise(cls, code, fsops, files, dirs) ==
        AfterOp(k, [call EXCEPT !.res = "raise", !.cls = cls, !.code = code,
                                !.fsops = fsops], files, dirs)
  IN  IF rpc # "ok"
        THEN raise("SendMessageError", "any", <<>>, k.files, k.dirs)
      ELSE IF ~info.save_exists
        THEN raise("BalatroError", "E009", <<>>, k.files, k.dirs)
      ELSE IF ~info.has_path
        THEN raise("KeyError", "none", <<>>, k.files, k.dirs)
      ELSE IF LiveSave \notin k.files
        THEN raise("BalatroError", "E012", <<>>, k.files, k.dirs)
      ELSE IF dest \in Unresolvable
        THEN raise("RuntimeError", "none", <<>>, k.files, k.dirs)
      ELSE IF SuffixLower(dest) # ".jkr"
        THEN raise("BalatroError", "E010", <<>>, k.files, k.dirs)
      ELSE IF ~mkOk
        THEN raise("BalatroError", "E010", <<"mkdir">>, k.files, k.dirs)
      ELSE IF ~cpOk
        THEN raise("BalatroError", "E010", <<"mkdir", "copy2">>,
                   IF partial THEN k.files \cup {dest} ELSE k.files,
                   k.dirs \cup ParentDirs(dest))
      ELSE [ AfterOp(k, [call EXCEPT !.res = "return",
                                     !.fsops = <<"mkdir", "copy2">>],
                     k.files \cup {dest}, k.dirs \cup ParentDirs(dest))
             EXCEPT !.saved = @ \cup {dest} ]

\* prepare_save that asks the peer for the save directory before it looks
\* for the source file.
prepare_save_InfoFirst(k, op, source, rpc, info, mkOk, cpOk, partial) ==
  LET call == [NoCkptOutcome EXCEPT !.op = op, !.arg = source,
                 !.live = source \in k.files]
      asked == [call EXCEPT !.rpc = rpc, !.info = info, !.sent = Sent(rpc)]
      raise(c, cls, code, fsops, files, dirs) ==
        AfterOp(k, [c EXCEPT !.res = "raise", !.cls = cls, !.code = code,
                             !.fsops = fsops], files, dirs)
  IN  IF rpc # "ok"
        THEN raise(asked, "SendMessageError", "any", <<>>, k.files, k.dirs)
      ELSE IF source \notin k.files
        THEN raise(asked, "BalatroError", "E012", <<>>, k.files, k.dirs)
      ELSE IF ~info.has_dir
        THEN raise(asked, "BalatroError", "E009", <<>>, k.files, k.dirs)
      ELSE IF ~mkOk
        THEN raise(asked, "OSError", "none", <<"mkdir">>, k.files, k.dirs)
      ELSE IF ~cpOk
        THEN raise(asked, "OSError", "none", <<"mkdir", "copy2">>,
                   IF partial THEN k.files \cup {PreparedSave} ELSE k.files,
                   k.dirs \cup {CheckpointsDir})
      ELSE AfterOp(k, [asked EXCEPT !.res = "return",
                                    !.fsops = <<"mkdir", "copy2">>],
                   k.files \cup {PreparedSave}, k.dirs \cup {CheckpointsDir})

\* BalatroClient.prepare_save(source), called as `op`.
prepare_save(k, op, source, rpc, info, mkOk, cpOk, partial) ==
  LET call == [NoCkptOutcome EXCEPT !.op = op, !.arg = source,
                 !.live = source \in k.files]
      asked == [call EXCEPT !.rpc = rpc, !.info = info, !.sent = Sent(rpc)]
      raise(c, cls, code, fsops, files, dirs) ==
        AfterOp(k, [c EXCEPT !.res = "raise", !.cls = cls, !.code = code,
                             !.fsops = fsops], files, dirs)
  IN  IF source \notin k.files
        THEN raise(call, "BalatroError", "E012", <<>>, k.files, k.dirs)
      ELSE IF rpc # "ok"
        THEN raise(asked, "SendMessageError", "any", <<>>, k.files, k.dirs)
      ELSE IF ~info.has_dir
        THEN raise(asked, "BalatroError", "E009", <<>>, k.files, k.dirs)
      ELSE IF ~mkOk
        THEN raise(asked, "OSError", "none", <<"mkdir">>, k.files, k.dirs)
      ELSE IF ~cpOk
        THEN raise(asked, "OSError", "none", <<"mkdir", "copy2">>,
                   IF partial THEN k.files \cup {PreparedSave} ELSE k.files,
                   k.dirs \cup {CheckpointsDir})
      ELSE AfterOp(k, [asked EXCEPT !.res = "return",
                                    !.fsops = <<"mkdir", "copy2">>],
                   k.files \cup {PreparedSave}, k.dirs \cup {CheckpointsDir})

\* BalatroClient.load_absolute_save(source): prepare_save, then the load_save
\* request, which ends as rpc2.
load_absolute_save(k, source, rpc, info, mkOk, cpOk, partial, rpc2) ==
  LET k1 == prepare_save(k, "load_absolute_save", source, rpc, info,
                         mkOk, cpOk, partial)
  IN  IF k1.last.res = "raise"
        THEN k1
        ELSE [k1 EXCEPT !.rpcs = @ + Sent(rpc2),
                        !.last.sent = @ + Sent(rpc2),
                        !.last.res = IF rpc2 = "ok" THEN "return" ELSE "raise",
                        !.last.cls = IF rpc2 = "ok" THEN "none"
                                                    ELSE "SendMessageError",
                        !.last.code = IF rpc2 = "ok" THEN "none" ELSE "any"]

\* What get_save_info can come to within save_checkpoint, which reads
\* save_exists and save_file_path, and within prepare_save, which reads
\* save_directory: the peer's report, or send_message raising.
FailedRpcs == { [rpc |-> r, info |-> NoInfo] : r \in {"failed", "not_connected"} }

SaveReplies ==
  { [rpc |-> "ok", info |-> i] : i \in { j \in SaveInfos : j.has_dir } }
    \cup FailedRpcs

PrepareReplies ==
  { [rpc |-> "ok", info |-> i] :
      i \in { j \in SaveInfos : j.save_exists /\ j.has_path } }
    \cup FailedRpcs

\* How mkdir and copy2 end: both succeed, mkdir raises OSError, copy2 raises
\* OSError and leaves nothing, or leaves a partial file.
FsOutcomes == {"ok", "mkdir_fails", "copy_fails", "copy_partial"}

CkptFrame == UNCHANGED <<cvars, bvars, yvars, w_st, p_st, r_st, g_st>>

SaveCheckpoint ==
  /\ k_st.ops < MaxOps
  /\ \E dest \in Dests, reply \in SaveReplies, fs \in FsOutcomes :
       k_st' = save_checkpoint(k_st, dest, reply.rpc, reply.info,
                               fs # "mkdir_fails", fs = "ok",
                               fs = "copy_partial")
  /\ CkptFrame

PrepareSave ==
  /\ k_st.ops < MaxOps
  /\ \E source \in Sources, reply \in PrepareReplies, fs \in FsOutcomes :
       k_st' = prepare_save(k_st, "prepare_save", source, reply.rpc,
                            reply.info, fs # "mkdir_fails", fs = "ok",
                            fs = "copy_partial")
  /\ CkptFrame

LoadAbsoluteSave ==
  /\ k_st.ops < MaxOps
  /\ \E source \in Sources, reply \in PrepareReplies, fs \in FsOutcomes,
        rpc2 \in {"ok", "failed"} :
       k_st' = load_absolute_save(k_st, source, reply.rpc, reply.info,
                                  fs # "mkdir_fails", fs = "ok",
                                  fs = "copy_partial", rpc2)
  /\ CkptFrame

\* A call of a method BalatroClient does not define (list_checkpoints,
\* delete_checkpoint): the attribute lookup raises AttributeError.
undefined_method(k, name, arg) ==
  AfterOp(k, [NoCkptOutcome EXCEPT !.op = name, !.arg = arg,
                                   !.res = "raise", !.cls = "AttributeError"],
          k.files, k.dirs)

ListCheckpoints ==
  /\ k_st.ops < MaxOps
  /\ k_st' = undefined_method(k_st, "list_checkpoints", "none")
  /\ CkptFrame

DeleteCheckpoint ==
  /\ k_st.ops < MaxOps
  /\ \E name \in Dests :
       k_st' = undefined_method(k_st, "delete_checkpoint", name)
  /\ CkptFrame

\* ============================================== the path translation
\* (src/src/balatrobot/client.py, _convert_windows_path_to_linux)
\* Paths are sequences of characters.

\* characters of a path given to the translation
MaxPathLen == 3

PathChars == {"C", ":", "/", "\\", "a"}

Paths == SeqUpTo(PathChars, MaxPathLen)

\* platform.system()
Systems == {"Linux", "Windows"}

\* s.startswith(pre)
StartsWith(s, pre) ==
  Len(s) >= Len(pre) /\ SubSeq(s, 1, Len(pre)) = pre

\* s[n:], counting from 0 as Python does
From(s, n) == SubSeq(s, n + 1, Len(s))

\* s.replace("\\", "/")
SlashesForward(s) == [i \in DOMAIN s |-> IF s[i] = "\\" THEN "/" ELSE s[i]]

\* str(Path("~/.steam/.../pfx/drive_c").expanduser()), taken as one character
LinuxPrefix == << "~/.steam/steam/steamapps/compatdata/2379780/pfx/drive_c" >>

\* BalatroClient._convert_windows_path_to_linux
convert_windows_path_to_linux(system, windows_path) ==
  IF system = "Linux" /\ StartsWith(windows_path, <<"C", ":">>)
    THEN IF StartsWith(windows_path, <<"C", ":", "/">>)
           THEN LinuxPrefix \o <<"/">> \o From(windows_path, 3)
         ELSE IF StartsWith(windows_path, <<"C", ":", "\\">>)
           THEN LinuxPrefix \o <<"/">> \o SlashesForward(From(windows_path, 3))
         ELSE LinuxPrefix \o <<"/">> \o From(windows_path, 2)
    ELSE windows_path

PathIdle == [pc |-> "idle", system |-> "Linux", path |-> <<>>, out |-> <<>>]

\* Any path, on either platform.
PathInit ==
  p_st \in { [PathIdle EXCEPT !.pc = "given", !.system = sy, !.path = pa] :
               sy \in Systems, pa \in Paths }

\* get_save_info translates a path the peer reports (client.py 213-220).
ConvertPath ==
  /\ p_st.pc = "given"
  /\ p_st' = [p_st EXCEPT !.pc = "done",
                !.out = convert_windows_path_to_linux(p_st.system, p_st.path)]
  /\ UNCHANGED <<cvars, bvars, yvars, w_st, k_st, r_st, g_st>>

\* ===================================================== the replay test
\* (src/tests/test_runs.py, TestRunReplays.test_replay_run)

\* entries of a recording
MaxSteps == 3

\* Names of recorded calls and game states (parsed JSON, compared with ==).
CallNames == {"select", "play"}

GameStates == {"s1", "s2"}

\* load_jsonl_run: the entries of a recording, each with the call made and
\* the game state before it.
Recordings == SeqUpTo([call : CallNames, game_state : GameStates], MaxSteps)

\* What send_and_receive_api_message comes to: the reply, or "none" when
\* recvfrom or json.loads raises (no datagram within the timeout, bad bytes).
ReplayReplies == GameStates \cup {"none"}

ReplayIdle ==
  [steps |-> <<>>, step_num |-> 0, issued |-> <<>>, replies |-> <<>>,
   verdict |-> "idle"]

\* The test starts on any recording.
ReplayInit ==
  r_st \in { [ReplayIdle EXCEPT !.steps = rec, !.verdict = "running"] :
               rec \in Recordings }

\* One iteration of the loop that goes on after a mismatch.
ReplayStep_NoAbort ==
  /\ r_st.verdict = "running"
  /\ r_st.step_num < Len(r_st.steps)
  /\ \E actual \in ReplayReplies :
       LET called == [r_st EXCEPT !.issued = Append(@, r_st.step_num + 1),
                                  !.replies = Append(@, actual)]
       IN  IF actual = "none"
             THEN r_st' = [called EXCEPT !.verdict = "error"]
             ELSE r_st' = [called EXCEPT !.step_num = @ + 1]
  /\ UNCHANGED <<cvars, bvars, yvars, w_st, k_st, p_st, g_st>>

\* One iteration of the loop of test_replay_run: the call of step step_num is
\* sent, its reply received and compared with the game state recorded for the
\* next step, if there is one.
ReplayStep ==
  /\ r_st.verdict = "running"
  /\ r_st.step_num < Len(r_st.steps)
  /\ \E actual \in ReplayReplies :
       LET called == [r_st EXCEPT !.issued = Append(@, r_st.step_num + 1),
                                  !.replies = Append(@, actual)]
       IN  IF actual = "none"
             THEN r_st' = [called EXCEPT !.verdict = "error"]
           ELSE IF /\ r_st.step_num + 1 < Len(r_st.steps)
                   /\ actual # r_st.steps[r_st.step_num + 2].game_state
             THEN r_st' = [called EXCEPT !.verdict = "failed"]
           ELSE r_st' = [called EXCEPT !.step_num = @ + 1]
  /\ UNCHANGED <<cvars, bvars, yvars, w_st, k_st, p_st, g_st>>

\* The loop is over: the test passes.
ReplayEnd ==
  /\ r_st.verdict = "running"
  /\ r_st.step_num = Len(r_st.steps)
  /\ r_st' = [r_st EXCEPT !.verdict = "passed"]
  /\ UNCHANGED <<cvars, bvars, yvars, w_st, k_st, p_st, g_st>>

\* ===================================================== the peer's phases
\* The game that answers the API calls, as the API tests drive it
\* (src/tests/lua/test_api_functions.py): one reply per request, carrying the
\* phase after the call, or an error and the phase unchanged.

\* requests sent to the peer
MaxRequests == 5

\* enums.py State: the phases the calls below move between (by name).
Phases == {"MENU", "BLIND_SELECT", "SELECTING_HAND", "ROUND_EVAL", "SHOP",
           "GAME_OVER"}

\* The calls, with the argument that decides the phase: skip_or_select_blind
\* (select, skip), play_hand_or_discard (a play that wins the round, a last
\* play that loses the run), cash_out, shop (next_round).
GameCalls == {"start_run", "go_to_menu", "select_blind", "skip_blind",
              "play_winning_hand", "play_losing_hand", "cash_out",
              "shop_next_round"}

\* The blind on deck, in the order of an ante.
NextBlind(blind) ==
  IF blind = "Small" THEN "Big" ELSE IF blind = "Big" THEN "Boss" ELSE "Small"

\* The peer's answers that leave cash_out in the round evaluation.
PeerReplies_CashOutStays(g, call) ==
  LET ok(phase, blind) == [phase |-> phase, blind |-> blind, err |-> FALSE]
      error            == [phase |-> g.phase, blind |-> g.blind, err |-> TRUE]
  IN  IF call = "go_to_menu" THEN {ok("MENU", g.blind)}
      ELSE IF call = "start_run"
        THEN IF g.phase = "MENU" THEN {ok("BLIND_SELECT", "Small")}
                                 ELSE {ok("BLIND_SELECT", "Small"), error}
      ELSE IF call = "select_blind" /\ g.phase = "BLIND_SELECT"
        THEN {ok("SELECTING_HAND", g.blind)}
      ELSE IF call = "skip_blind" /\ g.phase = "BLIND_SELECT"
        THEN IF g.blind = "Boss" THEN {error}
                                 ELSE {ok("BLIND_SELECT", NextBlind(g.blind))}
      ELSE IF call = "play_winning_hand" /\ g.phase = "SELECTING_HAND"
        THEN {ok("ROUND_EVAL", g.blind)}
      ELSE IF call = "play_losing_hand" /\ g.phase = "SELECTING_HAND"
        THEN {ok("GAME_OVER", g.blind)}
      ELSE IF call = "cash_out" /\ g.phase = "ROUND_EVAL"
        THEN {ok("ROUND_EVAL", g.blind)}
      ELSE IF call = "shop_next_round" /\ g.phase = "SHOP"
        THEN {ok("BLIND_SELECT", NextBlind(g.blind))}
      ELSE {error}

\* The answers the peer may give to a call in state g.
PeerReplies(g, call) ==
  LET ok(phase, blind) == [phase |-> phase, blind |-> blind, err |-> FALSE]
      error            == [phase |-> g.phase, blind |-> g.blind, err |-> TRUE]
  IN  IF call = "go_to_menu" THEN {ok("MENU", g.blind)}
      ELSE IF call = "start_run"
        THEN IF g.phase = "MENU" THEN {ok("BLIND_SELECT", "Small")}
                                 ELSE {ok("BLIND_SELECT", "Small"), error}
      ELSE IF call = "select_blind" /\ g.phase = "BLIND_SELECT"
        THEN {ok("SELECTING_HAND", g.blind)}
      ELSE IF call = "skip_blind" /\ g.phase = "BLIND_SELECT"
        THEN IF g.blind = "Boss" THEN {error}
                                 ELSE {ok("BLIND_SELECT", NextBlind(g.blind))}
      ELSE IF call = "play_winning_hand" /\ g.phase = "SELECTING_HAND"
        THEN {ok("ROUND_EVAL", g.blind)}
      ELSE IF call = "play_losing_hand" /\ g.phase = "SELECTING_HAND"
        THEN {ok("GAME_OVER", g.blind)}
      ELSE IF call = "cash_out" /\ g.phase = "ROUND_EVAL"
        THEN {ok("SHOP", g.blind)}
      ELSE IF call = "shop_next_round" /\ g.phase = "SHOP"
        THEN {ok("BLIND_SELECT", NextBlind(g.blind))}
      ELSE {error}

GameIdle ==
  [phase |-> "MENU", blind |-> "Small", calls |-> <<>>, replies |-> <<>>,
   on |-> FALSE]

\* The game is at its menu.
GameInit == g_st = [GameIdle EXCEPT !.on = TRUE]

\* A test sends one call and receives the peer's reply to it.
GameCall ==
  /\ g_st.on
  /\ Len(g_st.calls) < MaxRequests
  /\ \E call \in GameCalls :
       \E rep \in PeerReplies(g_st, call) :
         g_st' = [g_st EXCEPT !.phase = rep.phase, !.blind = rep.blind,
                              !.calls = Append(@, call),
                              !.replies = Append(@, [phase |-> rep.phase,
                                                     err |-> rep.err])]
  /\ UNCHANGED <<cvars, bvars, yvars, w_st, k_st, p_st, r_st>>

\* ============================================== the request line, in bytes
\* (src/src/balatrobot/client.py, send_message, lines 127-133)
\* send_message hands the request line to socket.send once and then calls
\* recv.  SendMessage above takes that write as a whole; what a short write
\* leads to (no reply, or a reply to a garbled line) is among the outcomes it
\* draws.  Here the bytes of the line are counted.

\* bytes of a request line, the newline included
MaxLineLen == 5
\* send_message calls whose bytes are followed
MaxSends == 3

\* socket.send(data) on a stream socket with a timeout: it returns how many
\* bytes the socket took, between 1 and len(data), or raises socket.error
\* (0 here).
socket_send(len) == 0..len

SendIdle ==
  [pc |-> "idle", calls |-> MaxSends, len |-> 0, written |-> 0, sends |-> 0,
   res |-> "none"]

\* a connected client that has made no call yet
SendInit == s_st = [SendIdle EXCEPT !.calls = 0]

\* send_message up to its recv: the line is built and given to socket.send.
WriteRequest ==
  /\ s_st.pc = "idle" /\ s_st.calls < MaxSends
  /\ \E len \in 2..MaxLineLen :
       \E n \in socket_send(len) :
         s_st' = IF n = 0
                   THEN [pc |-> "idle", calls |-> s_st.calls + 1, len |-> len,
                         written |-> 0, sends |-> 1, res |-> "raise"]
                   ELSE [pc |-> "recv", calls |-> s_st.calls + 1, len |-> len,
                         written |-> n, sends |-> 1, res |-> "none"]
  /\ UNCHANGED <<cvars, bvars, w_st, k_st, p_st, r_st, g_st, t_st>>

\* send_message from its recv on: it returns the reply or raises.
AwaitReply ==
  /\ s_st.pc = "recv"
  /\ \E r \in {"return", "raise"} :
       s_st' = [s_st EXCEPT !.pc = "idle", !.res = r]
  /\ UNCHANGED <<cvars, bvars, w_st, k_st, p_st, r_st, g_st, t_st>>

\* ======================================================= the with block
\* (src/src/balatrobot/client.py, __enter__ and __exit__, lines 50-57)
\* pc = "out" while the program is outside the with block.

WithInit ==
  /\ sock = 0
  /\ connected = FALSE
  /\ fds = [i \in 1..MaxSockets |-> NoSocket]
  /\ pc = "out"
  /\ ncalls = 0
  /\ writes = 0
  /\ last = NoOutcome

\* BalatroClient.__enter__: connect(); the body is entered when it returns.
Enter ==
  /\ pc = "out"
  /\ IF connected
       THEN /\ last' = Returned("connect")
            /\ pc' = "idle"
            /\ UNCHANGED <<sock, connected, fds>>
       ELSE \/ /\ last' = ConnectFailed("socket_create")
               /\ UNCHANGED <<sock, connected, fds, pc>>
            \/ /\ FreeSlot # 0
               /\ sock' = FreeSlot
               /\ fds' = [fds EXCEPT ![FreeSlot] = FreshSocket]
               /\ last' = ConnectFailed("connect_refused")
               /\ UNCHANGED <<connected, pc>>
            \/ /\ FreeSlot # 0
               /\ sock' = FreeSlot
               /\ fds' = [fds EXCEPT ![FreeSlot] = [FreshSocket EXCEPT !.est = TRUE]]
               /\ connected' = TRUE
               /\ last' = Returned("connect")
               /\ pc' = "idle"
  /\ UNCHANGED <<ncalls, writes>>
  /\ UNCHANGED <<bvars, xvars>>

\* __exit__ that disconnects only when the body ended without an exception.
Exit_OnlyOnSuccess ==
  /\ pc \in {"idle", "recv"}
  /\ pc' = "out"
  /\ IF pc = "idle" /\ last.res # "raise"
       THEN /\ IF sock # 0
                 THEN /\ fds' = [fds EXCEPT ![sock] = NoSocket]
                      /\ sock' = 0
                 ELSE UNCHANGED <<sock, fds>>
            /\ connected' = FALSE
            /\ last' = Returned("disconnect")
       ELSE UNCHANGED <<sock, fds, connected, last>>
  /\ UNCHANGED <<ncalls, writes>>
  /\ UNCHANGED <<bvars, xvars>>

\* BalatroClient.__exit__: the body has ended, by running to its end or by an
\* exception (that of a send_message that raised, or one that interrupts a
\* send_message blocked in recv); disconnect() is called whatever ended it.
Exit ==
  /\ pc \in {"idle", "recv"}
  /\ pc' = "out"
  /\ IF sock # 0
       THEN /\ fds' = [fds EXCEPT ![sock] = NoSocket]
            /\ sock' = 0
       ELSE UNCHANGED <<sock, fds>>
  /\ connected' = FALSE
  /\ last' = Returned("disconnect")
  /\ UNCHANGED <<ncalls, writes>>
  /\ UNCHANGED <<bvars, xvars>>

\* ===================================================== the replay scripts
\* (src/bots/replay.py and src/bots/replay-tcp.py)
\* Both scripts load a recording, connect, and send its steps in order.

Scripts == {"replay", "replay-tcp"}

\* How the call of one recorded step can end at the socket: the peer's reply
\* (a JSON object without "error", an error reply, text that is not JSON) or
\* a socket error (a timeout, a reset).
StepEnds == {"object", "error", "badjson", "socket_error"}

\* BalatroClient.send_message as replay.py calls it: it returns the object and
\* raises for everything else.
client_send_message(e) == IF e = "object" THEN "return" ELSE "raise"

\* TCPReplayBot.send_message: json.loads of what recv gave, returned as it is;
\* the socket's and the parser's exceptions pass through.
TCPReplayBot_send_message(e) ==
  IF e \in {"object", "error"} THEN "return" ELSE "raise"

\* What the script's loop makes of the step: "next" (go on with the following
\* step) or "exit" (leave with status 1).
StepVerdict(script, e) ==
  LET r == IF script = "replay" THEN client_send_message(e)
                                ELSE TCPReplayBot_send_message(e)
  IN  IF r = "return" THEN "next" ELSE "exit"

\* replay-tcp.py line 51, assert sys.argv == 2: a list equals no int, so the
\* assertion fails unless the interpreter was started with -O, which drops it.
ArgvAssertionHolds(optimized) == optimized

\*   script, optimized  which script runs, and whether under python -O
\*   steps              recorded steps in the file
\*   ends               how the calls of the steps sent so far ended
\*   conn               the script's connection: "none", "open", "closed"
\*   pc, status         "start", "loop", "exited"; the exit status (-1: none)
ScriptIdle ==
  [script |-> "replay", optimized |-> FALSE, steps |-> 0, ends |-> <<>>,
   conn |-> "none", pc |-> "exited", status |-> 0]

ScriptInit ==
  t_st \in { [ScriptIdle EXCEPT !.script = s, !.optimized = o, !.steps = n,
                               !.pc = "start", !.status = -1] :
               s \in Scripts, o \in BOOLEAN, n \in 0..MaxSteps }

ScriptFrame == UNCHANGED <<cvars, bvars, w_st, k_st, p_st, r_st, g_st, s_st>>

\* main up to the loop: the recording is loaded and the connection made.
ScriptStart ==
  /\ t_st.pc = "start"
  /\ IF t_st.script = "replay-tcp" /\ ~ArgvAssertionHolds(t_st.optimized)
       THEN \* AssertionError, outside every try
            t_st' = [t_st EXCEPT !.pc = "exited", !.status = 1]
       ELSE \/ \* connecting fails: ConnectionFailedError / OSError, exit(1)
               t_st' = [t_st EXCEPT !.pc = "exited", !.status = 1]
            \/ t_st' = [t_st EXCEPT !.pc = "loop", !.conn = "open"]
  /\ ScriptFrame

\* One iteration of the loop over the steps: the call, and what the script
\* does when it raises (replay.py: sys.exit(1) through the with block, whose
\* __exit__ disconnects; replay-tcp.py: the finally clause disconnects and the
\* except clause calls sys.exit(1)).
ScriptStep ==
  /\ t_st.pc = "loop" /\ Len(t_st.ends) < t_st.steps
  /\ \E e \in StepEnds :
       t_st' = IF StepVerdict(t_st.script, e) = "next"
                 THEN [t_st EXCEPT !.ends = Append(@, e)]
                 ELSE [t_st EXCEPT !.ends = Append(@, e), !.pc = "exited",
                                   !.conn = "closed", !.status = 1]
  /\ ScriptFrame

\* The loop is over: "Replay completed successfully!", disconnect, status 0.
ScriptEnd ==
  /\ t_st.pc = "loop" /\ Len(t_st.ends) = t_st.steps
  /\ t_st' = [t_st EXCEPT !.pc = "exited", !.conn = "closed", !.status = 0]
  /\ ScriptFrame

\* The parts of the state a specification is not about stay as they are here.
CkptIdle == [CHOOSE k \in CkptStates : k.files = {} EXCEPT !.ops = MaxOps]

\* ------------------------------------------------------- specifications
Init ==
  /\ ClientInit /\ BotInit
  /\ w_st = WireIdle /\ k_st = CkptIdle /\ p_st = PathIdle
  /\ r_st = ReplayIdle /\ g_st = GameIdle
  /\ s_st = SendIdle /\ t_st = ScriptIdle

Next ==
  \/ Connect
  \/ Disconnect
  \/ SendMessage
  \/ RecvReply
  \/ \E i \in 1..MaxSockets : PeerReply(i)
  \/ \E i \in 1..MaxSockets : Deliver(i)
  \/ \E i \in 1..MaxSockets : PeerClose(i)
  \/ \E i \in 1..MaxSockets : PeerReset(i)
  \/ \E i \in 1..MaxSockets : Collect(i)

Spec == Init /\ [][Next]_vars

NextBot ==
  \/ RunStep
  \/ RunStepIdle
  \/ RunReturn

SpecBot == Init /\ [][NextBot]_vars

InitWire ==
  /\ ClientInit /\ BotInit /\ WireInit
  /\ k_st = CkptIdle /\ p_st = PathIdle /\ r_st = ReplayIdle /\ g_st = GameIdle
  /\ s_st = SendIdle /\ t_st = ScriptIdle

NextWire ==
  \/ Serialize
  \/ Decode

SpecWire == InitWire /\ [][NextWire]_vars

InitCkpt ==
  /\ ClientInit /\ BotInit /\ CkptInit
  /\ w_st = WireIdle /\ p_st = PathIdle /\ r_st = ReplayIdle /\ g_st = GameIdle
  /\ s_st = SendIdle /\ t_st = ScriptIdle

NextCkpt ==
  \/ SaveCheckpoint
  \/ PrepareSave
  \/ LoadAbsoluteSave
  \/ ListCheckpoints
  \/ DeleteCheckpoint

SpecCkpt == InitCkpt /\ [][NextCkpt]_vars

InitPath ==
  /\ ClientInit /\ BotInit /\ PathInit
  /\ w_st = WireIdle /\ k_st = CkptIdle /\ r_st = ReplayIdle /\ g_st = GameIdle
  /\ s_st = SendIdle /\ t_st = ScriptIdle

NextPath == ConvertPath

SpecPath == InitPath /\ [][NextPath]_vars

InitReplay ==
  /\ ClientInit /\ BotInit /\ ReplayInit
  /\ w_st = WireIdle /\ k_st = CkptIdle /\ p_st = PathIdle /\ g_st = GameIdle
  /\ s_st = SendIdle /\ t_st = ScriptIdle

NextReplay ==
  \/ ReplayStep
  \/ ReplayEnd

SpecReplay == InitReplay /\ [][NextReplay]_vars

InitGame ==
  /\ ClientInit /\ BotInit /\ GameInit
  /\ w_st = WireIdle /\ k_st = CkptIdle /\ p_st = PathIdle /\ r_st = ReplayIdle
  /\ s_st = SendIdle /\ t_st = ScriptIdle

NextGame == GameCall

SpecGame == InitGame /\ [][NextGame]_vars

InitSend ==
  /\ ClientInit /\ BotInit /\ SendInit
  /\ w_st = WireIdle /\ k_st = CkptIdle /\ p_st = PathIdle
  /\ r_st = ReplayIdle /\ g_st = GameIdle /\ t_st = ScriptIdle

NextSend ==
  \/ WriteRequest
  \/ AwaitReply

SpecSend == InitSend /\ [][NextSend]_vars

InitWith ==
  /\ WithInit /\ BotInit
  /\ w_st = WireIdle /\ k_st = CkptIdle /\ p_st = PathIdle
  /\ r_st = ReplayIdle /\ g_st = GameIdle
  /\ s_st = SendIdle /\ t_st = ScriptIdle

NextWith ==
  \/ Enter
  \/ Exit
  \/ SendMessage
  \/ RecvReply
  \/ \E i \in 1..MaxSockets : PeerReply(i)
  \/ \E i \in 1..MaxSockets : Deliver(i)
  \/ \E i \in 1..MaxSockets : PeerClose(i)
  \/ \E i \in 1..MaxSockets : PeerReset(i)

SpecWith == InitWith /\ [][NextWith]_vars

InitScript ==
  /\ ClientInit /\ BotInit /\ ScriptInit
  /\ w_st = WireIdle /\ k_st = CkptIdle /\ p_st = PathIdle
  /\ r_st = ReplayIdle /\ g_st = GameIdle /\ s_st = SendIdle

NextScript ==
  \/ ScriptStart
  \/ ScriptStep
  \/ ScriptEnd

SpecScript == InitScript /\ [][NextScript]_vars

\* ==================================================================== claims

\* The requests outstanding on socket i: written by the client, and not yet
\* answered by a reply that the client has consumed.
Outstanding(i) ==
  { fds[i].toPeer[k] : k \in DOMAIN fds[i].toPeer }
    \cup { fds[i].wire[k].req : k \in DOMAIN fds[i].wire }
    \cup { fds[i].rcvbuf[k].req : k \in DOMAIN fds[i].rcvbuf }

\* A step of the client inside send_message: its first part, or its receive.
SendMessageStep == ncalls' # ncalls \/ (pc = "recv" /\ pc' = "idle")

\* C1: on one connection at most one request is outstanding at the peer at
\* any time, also after an earlier call ended in a timeout or a parse error.
C1_AtMostOneOutstanding ==
  \A i \in DOMAIN fds : Cardinality(Outstanding(i)) <= 1

\* C2: the object that the i-th send_message call returns, or the exception
\* it raises from an error reply, is built from the reply to the i-th request.
C2_OutcomeFromOwnReply ==
  ( /\ last.op = "send_message" /\ last.cause = "data"
    /\ last.body.kind \in {"object", "error"} )
  => last.from = last.call

\* C3: whenever no client operation is running, either _socket is set and
\* _connected is true, or _socket is None and _connected is false.
C3_TwoStates ==
  pc = "idle" => \/ sock # 0 /\ connected
                 \/ sock = 0 /\ ~connected

\* C4: one send_message call writes its request at most once, and no step of
\* send_message opens or closes a socket, or changes _socket or _connected.
C4_WritesOnceNoReconnect ==
  [][ /\ writes' <= 1
      /\ SendMessageStep =>
           /\ sock' = sock /\ connected' = connected
           /\ \A i \in DOMAIN fds : fds'[i].st = fds[i].st ]_vars

\* C4 witness: a call that timed out has ended, having written once.
C4_Witness ==
  /\ pc = "idle" /\ last.op = "send_message" /\ last.cause = "timeout"
  /\ writes = 1

\* C5: a socket error during the send or the receive of send_message makes the
\* call raise ConnectionFailedError with code E008.
C5_SocketErrorWrapped ==
  ( /\ last.op = "send_message"
    /\ last.cause \in {"send_error", "reset", "timeout"} )
  => /\ last.res = "raise"
     /\ last.cls = "ConnectionFailedError"
     /\ last.code = "E008"

\* C5 witness: a call whose send raised has ended.
C5_Witness ==
  last.op = "send_message" /\ last.cause = "send_error" /\ last.res = "raise"

\* C6: send_message on a client that is not connected raises
\* ConnectionFailedError with code E008 and writes to no socket.
C6_NotConnectedRaises ==
  [][ (ncalls' # ncalls /\ (~connected \/ sock = 0))
      => /\ last'.op = "send_message" /\ last'.res = "raise"
         /\ last'.cls = "ConnectionFailedError" /\ last'.code = "E008"
         /\ writes' = 0 /\ fds' = fds /\ pc' = "idle" ]_vars

\* C6 witness: the call was made on a client left by a failed connect (the
\* socket is set, the flag is false).
C6_Witness ==
  /\ last.op = "send_message" /\ last.cause = "not_connected"
  /\ sock # 0 /\ ~connected

C8_ErrorReplyNeverReturned ==
  (last.op = "send_message" /\ last.body.kind = "error") => last.res = "raise"

\* C8 witness: a call read an error reply that also holds the fields of a game
\* state.
C8_Witness ==
  last.op = "send_message" /\ last.body.kind = "error" /\ last.body.extra

\* C9: for an error reply carrying a code of the taxonomy, the exception
\* raised carries that code and the reply's error text.
C9_ErrorCodePreserved ==
  ( /\ last.op = "send_message" /\ last.body.kind = "error"
    /\ last.body.code \in ErrorCode )
  => /\ last.res = "raise"
     /\ last.cls \in {"BalatroError", "ConnectionFailedError"}
     /\ last.code = last.body.code
     /\ last.text = last.body.text

\* C9 witness: the error reply of the client test (E009, "Invalid game state").
C9_Witness ==
  /\ last.op = "send_message" /\ last.body.kind = "error"
  /\ last.body.code = "E009" /\ last.body.text = "Invalid game state"
  /\ last.code = "E009"

\* C10: a receive that times out, a reset connection and an orderly close by
\* the peer all make send_message raise ConnectionFailedError with code E008.
C10_TimeoutLikeDrop ==
  ( /\ last.op = "send_message"
    /\ last.cause \in {"timeout", "reset", "eof"} )
  => /\ last.res = "raise"
     /\ last.cls = "ConnectionFailedError"
     /\ last.code = "E008"

\* C11: connect() on a connected client changes nothing: no socket is
\* created, the socket is kept, the client stays connected.
C11_ConnectIdempotent ==
  [][ (Connect /\ connected)
      => /\ sock' = sock /\ connected' /\ fds' = fds
         /\ last'.op = "connect" /\ last'.res = "return" ]_vars

\* C11 witness: connect() has returned on a client whose socket already
\* carries a request.
C11_Witness ==
  /\ pc = "idle" /\ last.op = "connect" /\ last.res = "return"
  /\ sock # 0 /\ connected /\ fds[sock].toPeer # <<>>

\* C12: disconnect() never raises and ends with _socket None and _connected
\* false, the socket closed; on a disconnected client it changes nothing.
C12_DisconnectSafe ==
  [][ Disconnect
      => /\ last'.op = "disconnect" /\ last'.res = "return"
         /\ sock' = 0 /\ ~connected'
         /\ sock # 0 => fds'[sock].st = "unused"
         /\ (sock = 0 /\ ~connected) => fds' = fds ]_vars

\* C12 witness: disconnect() has returned after a send_message call that
\* wrote its request.
C12_Witness ==
  /\ last.op = "disconnect" /\ sock = 0 /\ ~connected
  /\ ncalls > 0 /\ writes = 1

\* C13: a connect() that cannot establish the socket raises
\* ConnectionFailedError E008 with host, port and error in its context, and
\* the client is not marked connected.
C13_ConnectFailureWrapped ==
  (last.op = "connect" /\ last.cause \in {"socket_create", "connect_refused"})
  => /\ last.res = "raise"
     /\ last.cls = "ConnectionFailedError" /\ last.code = "E008"
     /\ last.ctx = {"host", "port", "error"}
     /\ ~connected

\* C13 witness: socket.connect was refused.
C13_Witness ==
  last.op = "connect" /\ last.cause = "connect_refused" /\ last.res = "raise"

\* C14: the client starts with _socket None and _connected false, and no
\* operation other than connect() takes it out of that state.
C14_NullUntilConnect ==
  /\ sock = 0 /\ ~connected
  /\ [][ (sock = 0 /\ ~connected /\ ~Connect)
         => (sock' = 0 /\ ~connected') ]_vars

\* C14 witness: send_message and then disconnect were called on a client that
\* holds no socket.
C14_Witness ==
  /\ pc = "idle" /\ sock = 0 /\ ~connected
  /\ ncalls > 0 /\ last.op = "disconnect"
  /\ \A i \in DOMAIN fds : fds[i].st = "unused"

\* A decision request for which run_step calls chooseaction.
Dispatched(step) ==
  step.got = "request" /\ ~step.env.resp /\ step.env.waitingForAction

\* C15: after a run_step that dispatched a decision request whose state is
\* GAME_OVER and sent its action, the running flag is false.
C15_GameOverStops ==
  ( /\ Dispatched(b_step) /\ b_step.env.state = GAME_OVER
    /\ b_step.sent # <<>> )
  => ~b_running

\* C16: the dispatch on waitingFor is exact: a callback name calls that
\* callback once and its result is the chosen action; start_run calls none and
\* gives START_RUN with the constructor's arguments; any other value raises,
\* calls none and sends nothing.
C16_DispatchExact ==
  Dispatched(b_step)
  => /\ b_step.env.waitingFor \in Callbacks
          => /\ b_step.invoked = <<b_step.env.waitingFor>>
             /\ b_step.chosen.by = b_step.env.waitingFor
             /\ b_step.sent \in {<<>>, <<b_step.chosen>>}
     /\ b_step.env.waitingFor = "start_run"
          => /\ b_step.invoked = <<>>
             /\ b_step.chosen = Action("START_RUN", StartRunArgs, "bot")
             /\ b_step.sent \in {<<>>, <<b_step.chosen>>}
     /\ b_step.env.waitingFor \notin Callbacks \cup {"start_run"}
          => /\ b_step.res = "raise"
             /\ b_step.invoked = <<>>
             /\ b_step.sent = <<>>

\* C16 witness: rearrange_consumables was asked for, and its action was sent.
C16_Witness ==
  /\ Dispatched(b_step)
  /\ b_step.env.waitingFor = "rearrange_consumables"
  /\ b_step.sent = <<b_step.chosen>>

\* C17: when the callback returns None or an empty action, run_step raises
\* and sends no action.
C17_MissingActionRaises ==
  b_step.chosen.kind \in {"None", "empty"}
  => (b_step.res = "raise" /\ b_step.sent = <<>> /\ b_pc = "raised")

\* C17 witness: a callback returned an empty dict.
C17_Witness ==
  b_step.chosen.kind = "empty" /\ b_step.invoked # <<>>

C19_SocketErrorsHandled ==
  ~(b_step.res = "raise" /\ b_step.err = "socket.error")

\* C20: a decision request that is not JSON ends the run: run_step raises,
\* does not reconnect, sends nothing, and no run_step follows.
C20_BadJsonFatal ==
  [][ /\ b_step'.got = "badjson"
           => /\ b_step'.res = "raise" /\ b_pc' = "raised"
              /\ ~b_step'.reconn /\ b_step'.sent = <<>>
              /\ b_sock' = b_sock
      /\ b_pc = "raised" => b_polls' = b_polls ]_vars

\* C20 witness: the second poll of a run received bytes that are not JSON.
C20_Witness ==
  b_step.got = "badjson" /\ b_pc = "raised" /\ b_polls = 2

\* C21: decoding the string the serializer gives recovers the verb and the
\* args list, read either as one field per argument or as one field holding
\* all the arguments.
C21_RoundTrip ==
  w_st.pc = "decoded"
  => \/ /\ w_st.fields.verb = <<w_st.action.verb>>
        /\ w_st.fields.args = Printed(w_st.action.args)
     \/ /\ w_st.flat.verb = <<w_st.action.verb>>
        /\ w_st.flat.args = Printed(w_st.action.args)

\* C21, for args without a list among them: the part of the round trip that
\* the serializer keeps.
C21_ScalarsRoundTrip ==
  (w_st.pc = "decoded" /\ \A i \in DOMAIN w_st.action.args :
                             w_st.action.args[i].k = "scalar")
  => /\ w_st.flat.verb = <<w_st.action.verb>>
     /\ w_st.flat.args = Printed(w_st.action.args)

\* The last helper call made no filesystem call and left the files and
\* directories as they were (the call before it is not kept, so this is
\* stated on the step).
NoFsChange == k_st'.last.fsops = <<>> /\ k_st'.files = k_st.files
                /\ k_st'.dirs = k_st.dirs

CkptStep(op) == k_st'.ops = k_st.ops + 1 /\ k_st'.last.op = op

\* C22: when the peer reports save_exists false, save_checkpoint raises
\* BalatroError E009 and makes no filesystem change, whatever the destination.
C22_NoSaveNoCheckpoint ==
  [][ ( /\ CkptStep("save_checkpoint")
        /\ k_st'.last.rpc = "ok" /\ ~k_st'.last.info.save_exists )
      => /\ k_st'.last.res = "raise"
         /\ k_st'.last.cls = "BalatroError" /\ k_st'.last.code = "E009"
         /\ NoFsChange ]_vars

\* C22 witness: no save exists, and the destination is one that would have
\* needed a new directory.
C22_Witness ==
  /\ k_st.last.op = "save_checkpoint" /\ k_st.last.rpc = "ok"
  /\ ~k_st.last.info.save_exists /\ k_st.last.arg = "new/ck.jkr"
  /\ k_st.last.live /\ k_st.last.code = "E009"

C24_SavedIsListed ==
  (k_st.last.op = "list_checkpoints" /\ k_st.saved # {})
  => k_st.last.res = "return"

\* C25: prepare_save and load_absolute_save of a source file that does not
\* exist raise BalatroError E012, make no filesystem change and send no
\* request.
C25_MissingSourceNotFound ==
  [][ ( /\ \/ CkptStep("prepare_save")
           \/ CkptStep("load_absolute_save")
        /\ k_st'.last.arg \notin k_st.files )
      => /\ k_st'.last.res = "raise"
         /\ k_st'.last.cls = "BalatroError" /\ k_st'.last.code = "E012"
         /\ NoFsChange
         /\ k_st'.last.sent = 0 /\ k_st'.rpcs = k_st.rpcs ]_vars

\* C25 witness: load_absolute_save of a missing file, on a client that has
\* sent a request before.
C25_Witness ==
  /\ k_st.last.op = "load_absolute_save" /\ k_st.last.arg = "gone.jkr"
  /\ k_st.last.code = "E012" /\ k_st.rpcs = 1

\* C26: over the paths that begin with "C:", two different paths never
\* translate to the same path.
C26_Invertible ==
  (p_st.pc = "done" /\ StartsWith(p_st.path, <<"C", ":">>))
  => \A q \in Paths :
       (q # p_st.path /\ StartsWith(q, <<"C", ":">>))
       => convert_windows_path_to_linux(p_st.system, q) # p_st.out

\* The replies to all the calls but the last equal the game states recorded
\* for the steps that follow them.
RepliesMatch ==
  \A j \in 1..(Len(r_st.steps) - 1) :
    j <= Len(r_st.replies) /\ r_st.replies[j] = r_st.steps[j + 1].game_state

\* C27 as stated: the replay passes if and only if the reply to every call
\* but the last equals the game state recorded for the next step.
C27_PassIffRepliesMatch ==
  r_st.verdict \in {"passed", "failed", "error"}
  => (r_st.verdict = "passed" <=> RepliesMatch)

\* C27 amended: the calls are issued in recorded order, one request each and
\* none twice; the replay passes if and only if every call, the last
\* included, got a reply and the replies to all but the last match; at the
\* first mismatch it fails with none of the later calls issued; and once it
\* has ended it issues nothing.
C27_ReplayInOrderNoRetry ==
  /\ [] ( /\ r_st.issued = [j \in 1..Len(r_st.issued) |-> j]
          /\ Len(r_st.replies) = Len(r_st.issued)
          /\ Len(r_st.issued) <= Len(r_st.steps)
          /\ r_st.verdict \in {"passed", "failed", "error"}
               => ( r_st.verdict = "passed"
                    <=> /\ Len(r_st.replies) = Len(r_st.steps)
                        /\ \A j \in DOMAIN r_st.replies : r_st.replies[j] # "none"
                        /\ RepliesMatch )
          /\ r_st.verdict = "failed"
               => LET m == Len(r_st.issued)
                  IN  /\ m < Len(r_st.steps)
                      /\ r_st.replies[m] # r_st.steps[m + 1].game_state
                      /\ \A j \in 1..(m - 1) :
                           r_st.replies[j] = r_st.steps[j + 1].game_state )
  /\ [][ r_st.verdict \in {"passed", "failed", "error"} => r_st' = r_st ]_vars

\* C27 witness: the reply to the second of three recorded calls differs, and
\* the third call was not issued.
C27_Witness ==
  /\ r_st.verdict = "failed" /\ Len(r_st.steps) = 3
  /\ r_st.issued = <<1, 2>>

\* The call sequence of the end-to-end scenario and the phases it reports.
Scenario ==
  << "start_run", "select_blind", "play_winning_hand", "cash_out",
     "shop_next_round" >>

ScenarioPhases ==
  << "BLIND_SELECT", "SELECTING_HAND", "ROUND_EVAL", "SHOP", "BLIND_SELECT" >>

\* C29: every request has exactly one reply, and wherever the scenario's
\* calls are made from the menu, the replies carry the scenario's phases, one
\* after the other and without an error.
C29_ScenarioPhases ==
  /\ Len(g_st.replies) = Len(g_st.calls)
  /\ \A o \in 0..Len(g_st.calls), n \in 1..Len(Scenario) :
       ( /\ o + n <= Len(g_st.calls)
         /\ o = 0 \/ g_st.calls[o] = "go_to_menu"
         /\ SubSeq(g_st.calls, o + 1, o + n) = SubSeq(Scenario, 1, n) )
       => \A j \in 1..n :
            /\ ~g_st.replies[o + j].err
            /\ g_st.replies[o + j].phase = ScenarioPhases[j]

\* C29 witness: the whole scenario has been driven; the big blind is on deck.
C29_Witness ==
  /\ g_st.calls = Scenario /\ g_st.phase = "BLIND_SELECT"
  /\ g_st.blind = "Big"

\* C28: a decision request whose state code is outside the enumeration is not
\* dispatched: no callback is called for it and no action is sent.
C28_UnknownStateNotDispatched ==
  (Dispatched(b_step) /\ b_step.env.state \notin StateCodes)
  => (b_step.invoked = <<>> /\ b_step.sent = <<>>)

\* C30: after send_message has failed with a socket error, the client holds
\* no socket and is not connected.
C30_SocketErrorDestroysConnection ==
  ( /\ pc = "idle" /\ last.op = "send_message"
    /\ last.cls = "ConnectionFailedError"
    /\ last.cause \in {"send_error", "reset", "timeout"} )
  => (sock = 0 /\ ~connected)

\* C31: at every moment the client owns at most one open socket: the sockets
\* it created earlier are closed by the time it creates a new one, also when
\* a failed connect() is followed by another connect().
C31_AtMostOneOpenSocket ==
  Cardinality({ i \in DOMAIN fds : fds[i].st = "open" }) <= 1

\* C32: when send_message starts to wait for the reply, the whole request
\* line has been written, also when the socket took only part of it in one
\* write.
C32_WholeLineWritten ==
  s_st.pc = "recv" => s_st.written = s_st.len

\* The exception classes of the BalatroError family, that of the factory for
\* an error reply with an unlisted code included.
BalatroErrorFamily == {"BalatroError", "ConnectionFailedError", "Unknown"}

\* C33: whatever the peer replies, send_message returns or raises an
\* exception of the BalatroError family; no other exception escapes.
C33_OnlyBalatroErrorsEscape ==
  (last.op = "send_message" /\ last.res = "raise")
  => last.cls \in BalatroErrorFamily

\* C34: a socket error during a poll, followed by the reconnect, leaves the
\* bot's state mapping and G as they were before the poll.
C34_ReconnectKeepsState ==
  [][ (b_polls' # b_polls /\ b_step'.got = "error" /\ b_step'.reconn)
      => b_mem' = b_mem ]_vars

\* C35: once chooseaction has left running false in a poll, it is false when
\* the poll ends: the reconnect after a failed send of the action does not
\* set it back.
C35_StoppedStaysStopped ==
  b_step.stopped => ~b_running

\* C36: the reconnects are bounded: the bot that has reconnected in each of
\* MaxPolls polls in a row is not about to poll once more.
C36_ReconnectsBounded ==
  ~( /\ b_pc = "run" /\ b_running
     /\ b_polls = MaxPolls /\ b_sock = MaxPolls + 1
     /\ b_step.got = "error" /\ b_step.reconn )

\* A recorded step whose call ended in an error: an error reply, or a
\* connection failure.
ErrorEnds == {"error", "socket_error"}

\* C37: in the replay scripts, a recorded step that ends in an error is the
\* last one sent; the connection is then closed and the exit status is 1.
C37_ErrorEndsReplay ==
  \A k \in DOMAIN t_st.ends :
    t_st.ends[k] \in ErrorEnds
      => /\ k = Len(t_st.ends)
         /\ t_st.pc = "exited" /\ t_st.conn = "closed" /\ t_st.status = 1

\* What C38 says of every run_step but the probe count: at most one action,
\* sent only for a request that asks for one.
ActionOnlyWhenAsked(step) ==
  /\ Len(step.sent) <= 1
  /\ step.sent # <<>> => Dispatched(step)

ProtocolFailure(o) ==
  /\ o.op = "send_message" /\ o.res = "raise"
  /\ o.body.kind \in {"error", "badjson"}

\* C39: when send_message raises for an error reply or an invalid-JSON
\* reply, _connected stays true and the same socket stays open; the next
\* send_message goes out on that socket and does not find the client
\* disconnected.
C39_ProtocolErrorKeepsConnection ==
  [][ /\ (pc = "recv" /\ pc' = "idle" /\ ProtocolFailure(last'))
        => /\ connected' /\ sock' = sock /\ sock # 0
           /\ fds'[sock].st = "open"
      /\ (ncalls' # ncalls /\ ProtocolFailure(last))
        => /\ connected' /\ sock' = sock
           /\ last'.cause # "not_connected" ]_vars

\* C39 witness: the first call raised for an invalid-JSON reply, and the
\* second call has written its request on the same socket.
C39_Witness ==
  /\ pc = "recv" /\ ncalls = 2 /\ writes = 1
  /\ last.call = 1 /\ last.cause = "data" /\ last.body.kind = "badjson"
  /\ connected /\ sock = 1

\* C40: when the with block is left, by its end or by an exception, the
\* socket has been closed, _socket is None and _connected is false.
C40_ExitDisconnects ==
  [][ (pc # "out" /\ pc' = "out")
      => /\ sock' = 0 /\ ~connected'
         /\ sock # 0 => fds'[sock].st = "unused" ]_vars

\* C40 witness: the block has been left after a send_message that raised
\* when it wrote (the connection had been reset).
C40_Witness ==
  /\ pc = "out" /\ last.op = "disconnect"
  /\ ncalls = 2 /\ writes = 0
  /\ sock = 0 /\ ~connected

====
